---- MODULE Spec2Model ----
(***************************************************************************)
(* Model of the brawlfind database service (database-service.js) and of    *)
(* the search route of the API server: the videos collection, saveVideo,   *)
(* searchVideos, GET /api/search, getVideoRecommendations, the trending    *)
(* and popular-query aggregations, the connection of the module to the     *)
(* database, and of getPersonalizedRecommendations and callLLMWithRetry of *)
(* the conversation service.                                               *)
(*                                                                         *)
(* Conventions                                                             *)
(*  - A JavaScript string is a sequence of tokens; a token is the blank    *)
(*    " " or a whole word.  A date string (ISO 8601) is a sequence of      *)
(*    digits, compared lexicographically as MongoDB compares strings.      *)
(*  - A JavaScript number that may be NaN or Infinity is a record          *)
(*    [k, v] (Num, NaN, Infinity below).                                   *)
(*  - A params / query object is a record holding every field plus         *)
(*    `undef`, the set of fields that are undefined in the JS object.      *)
(*  - popularity and recency are doubles in [0,1]; they are held in        *)
(*    tenths (8 stands for 0.8).                                           *)
(*  - Time is counted in days: `now` is the day new Date() falls on and    *)
(*    the ISO string of a day is its two decimal digits.                   *)
(***************************************************************************)
EXTENDS Integers, Sequences, FiniteSets, TLC

VARIABLES
  videos,         \* the videos collection: the stored records
  searchHistory,  \* the searchHistory collection: the queries saved, oldest first
  metrics,        \* the number of rows of the metrics collection
  call,           \* the last operation called and its arguments
  result,         \* what that operation returned
  now,            \* the day new Date() falls on
  storage,        \* "up" when MongoDB answers, "down" when its calls fail
  connected,      \* the module-level flag `connected`
  uniqueIndex,    \* the unique index on videos.youtubeId exists
  saves,          \* the saveVideo calls in progress, one per caller
  retry,          \* the callLLMWithRetry call in progress
  session,        \* req.session.userPreferences of the one session
  preferences,    \* the userPreferences collection: the documents saved
  clients,        \* the MongoClient objects created, each "created", "open" or "closed"
  client,         \* the module-level `client`: an index into clients, 0 when unset
  promptCache,    \* the promptCache of the conversation service
  search          \* the searchVideos call in progress

vars ==
  <<videos, searchHistory, metrics, call, result,
    now, storage, connected, uniqueIndex, saves, retry,
    session, preferences, clients, client, promptCache, search>>

\* The session, the connection objects, the prompt cache and the search in
\* progress: what the operations written before them leave alone.
apart == <<session, preferences, clients, client, promptCache, search>>

\* What the operations of the sequential specifications leave alone.
aside == <<now, storage, connected, uniqueIndex, saves, retry, apart>>

(***************************************************************************)
(* Bounds of the model.                                                    *)
(***************************************************************************)
MaxStored == 3

MaxPage == 3

MaxLimit == 2

MaxRequests == 2

MaxDay == 41

MaxRetries == 4

MaxHistory == 3

MaxMessages == 11

MaxAttempts == 2

MaxClients == 6

MaxCached == 2

(***************************************************************************)
(* JavaScript numbers.                                                     *)
(***************************************************************************)
Num(n) == [k |-> "num", v |-> n]

NaN == [k |-> "NaN", v |-> 0]

Infinity == [k |-> "Infinity", v |-> 0]

IsNum(x) == x.k = "num"

\* Mutant of JsGt0: x !== 0 in place of x > 0, true for NaN.
JsGt0_NotZero(x) == ~(x.k = "num" /\ x.v = 0)

\* x > 0 in JavaScript: false for NaN.
JsGt0(x) == (x.k = "num" /\ x.v > 0) \/ x.k = "Infinity"

Digits == {"0", "1", "2", "3", "4", "5", "6", "7", "8", "9"}

DigitVal(c) ==
  CASE c = "0" -> 0 [] c = "1" -> 1 [] c = "2" -> 2 [] c = "3" -> 3
    [] c = "4" -> 4 [] c = "5" -> 5 [] c = "6" -> 6 [] c = "7" -> 7
    [] c = "8" -> 8 [] c = "9" -> 9

RECURSIVE DropBlanks(_)
DropBlanks(s) ==
  IF s # <<>> /\ Head(s) = " " THEN DropBlanks(Tail(s)) ELSE s

RECURSIVE DropTrailingBlanks(_)
DropTrailingBlanks(s) ==
  IF s # <<>> /\ s[Len(s)] = " "
  THEN DropTrailingBlanks(SubSeq(s, 1, Len(s) - 1))
  ELSE s

\* String.prototype.trim
Trim(s) == DropTrailingBlanks(DropBlanks(s))

\* The value of the longest prefix of digits of s, acc being the value read so far.
RECURSIVE ReadDigits(_, _)
ReadDigits(s, acc) ==
  IF s # <<>> /\ Head(s) \in Digits
  THEN ReadDigits(Tail(s), 10 * acc + DigitVal(Head(s)))
  ELSE acc

\* parseInt of a string of characters: leading blanks are skipped, a sign is
\* read, then the longest prefix of digits; NaN when there is no digit.
ParseIntStr(s) ==
  LET t    == DropBlanks(s)
      neg  == t # <<>> /\ Head(t) = "-"
      body == IF t # <<>> /\ Head(t) \in {"-", "+"} THEN Tail(t) ELSE t
  IN IF body = <<>> \/ Head(body) \notin Digits
     THEN NaN
     ELSE Num(IF neg THEN 0 - ReadDigits(body, 0) ELSE ReadDigits(body, 0))

\* parseInt of a number: the number itself when it is an integer, NaN for NaN
\* and Infinity.
ParseIntNum(x) == IF x.k = "num" THEN x ELSE NaN

\* Mutant of CeilDiv: Math.floor in place of Math.ceil.
CeilDiv_Floor(total, limit) ==
  CASE limit.k # "num" -> IF limit.k = "Infinity" THEN Num(0) ELSE NaN
    [] limit.k = "num" /\ limit.v = 0 -> IF total = 0 THEN NaN ELSE Infinity
    [] limit.k = "num" /\ limit.v > 0 -> Num(total \div limit.v)
    [] limit.k = "num" /\ limit.v < 0 -> Num(0 - ((total - limit.v - 1) \div (0 - limit.v)))

\* Math.ceil(total / limit), total an integer >= 0.
CeilDiv(total, limit) ==
  CASE limit.k # "num" -> IF limit.k = "Infinity" THEN Num(0) ELSE NaN
    [] limit.k = "num" /\ limit.v = 0 -> IF total = 0 THEN NaN ELSE Infinity
    [] limit.k = "num" /\ limit.v > 0 -> Num((total + limit.v - 1) \div limit.v)
    [] limit.k = "num" /\ limit.v < 0 -> Num(0 - (total \div (0 - limit.v)))

(***************************************************************************)
(* Strings compared as MongoDB compares them (lexicographically).          *)
(***************************************************************************)
RECURSIVE StrLess(_, _)
StrLess(a, b) ==
  IF b = <<>> THEN FALSE
  ELSE IF a = <<>> THEN TRUE
  ELSE IF Head(a) # Head(b) THEN Head(a) < Head(b)
  ELSE StrLess(Tail(a), Tail(b))

StrLeq(a, b) == a = b \/ StrLess(a, b)

(***************************************************************************)
(* The video data the collector hands to saveVideo.  `arrays` tells        *)
(* whether the classification fields of the input are arrays.              *)
(***************************************************************************)
VideoData ==
  { [youtubeId |-> "v1", brawlers |-> {"Mortis"}, gameModes |-> {"Brawl Ball"},
     contentType |-> {"tutorial"}, skillLevel |-> "advanced", creatorId |-> "c1",
     viewCount |-> 500000, duration |-> 300, publishedAt |-> <<1, 0>>,
     popularity |-> 8, recency |-> 5,
     title |-> {"mortis"}, description |-> {}, transcript |-> {}, arrays |-> TRUE],
    [youtubeId |-> "v2", brawlers |-> {"Mortis", "Colt"}, gameModes |-> {"Gem Grab"},
     contentType |-> {"gameplay"}, skillLevel |-> "", creatorId |-> "c2",
     viewCount |-> 200000, duration |-> 600, publishedAt |-> <<0, 1>>,
     popularity |-> 5, recency |-> 10,
     title |-> {"colt"}, description |-> {"mortis"}, transcript |-> {}, arrays |-> TRUE],
    [youtubeId |-> "v3", brawlers |-> {"Shelly"}, gameModes |-> {"Brawl Ball"},
     contentType |-> {"tutorial"}, skillLevel |-> "beginner", creatorId |-> "c1",
     viewCount |-> 900000, duration |-> 120, publishedAt |-> <<0, 2>>,
     popularity |-> 5, recency |-> 5,
     title |-> {"shelly"}, description |-> {}, transcript |-> {"mortis"}, arrays |-> TRUE],
    [youtubeId |-> "v4", brawlers |-> {"Mortis"}, gameModes |-> {"Brawl Ball"},
     contentType |-> {"tutorial"}, skillLevel |-> "advanced", creatorId |-> "c1",
     viewCount |-> 500000, duration |-> 300, publishedAt |-> <<1, 0>>,
     popularity |-> 8, recency |-> 5,
     title |-> {"mortis"}, description |-> {}, transcript |-> {}, arrays |-> TRUE],
    [youtubeId |-> "v5", brawlers |-> {"Colt"}, gameModes |-> {"Gem Grab"},
     contentType |-> {"gameplay"}, skillLevel |-> "", creatorId |-> "c3",
     viewCount |-> 0, duration |-> 0, publishedAt |-> <<0, 2>>,
     popularity |-> 0, recency |-> 0,
     title |-> {}, description |-> {}, transcript |-> {}, arrays |-> FALSE] }

\* formattedVideo of saveVideo: a classification field that is not an array
\* becomes the empty array.
FormatVideo(videoData) ==
  [youtubeId   |-> videoData.youtubeId,
   brawlers    |-> IF videoData.arrays THEN videoData.brawlers ELSE {},
   gameModes   |-> IF videoData.arrays THEN videoData.gameModes ELSE {},
   contentType |-> IF videoData.arrays THEN videoData.contentType ELSE {},
   skillLevel  |-> videoData.skillLevel,
   creatorId   |-> videoData.creatorId,
   viewCount   |-> videoData.viewCount,
   duration    |-> videoData.duration,
   publishedAt |-> videoData.publishedAt,
   popularity  |-> videoData.popularity,
   recency     |-> videoData.recency,
   title       |-> videoData.title,
   description |-> videoData.description,
   transcript  |-> videoData.transcript]

(***************************************************************************)
(* Parameter objects.                                                      *)
(***************************************************************************)
DefaultLimit == 20

ParamFields ==
  {"query", "brawlers", "gameModes", "contentType", "skillLevel", "sortBy",
   "limit", "page", "minViews", "maxDuration", "dateFrom", "dateTo", "channelId"}

\* The object {} : every field undefined.
NoParams ==
  [query |-> <<>>, brawlers |-> <<>>, gameModes |-> <<>>, contentType |-> <<>>,
   skillLevel |-> "", sortBy |-> "", limit |-> NaN, page |-> NaN,
   minViews |-> NaN, maxDuration |-> NaN, dateFrom |-> <<>>, dateTo |-> <<>>,
   channelId |-> "", undef |-> ParamFields]

\* The object p with field f set to x.
With(p, f, x) == [p EXCEPT ![f] = x, !.undef = @ \ {f}]

\* Destructuring with a default: the default replaces an undefined field.
Field(p, f, default) == IF f \in p.undef THEN default ELSE p[f]

\* The destructured parameters of searchVideos.
Destructure(params) ==
  [query       |-> Field(params, "query", <<>>),
   brawlers    |-> Field(params, "brawlers", <<>>),
   gameModes   |-> Field(params, "gameModes", <<>>),
   contentType |-> Field(params, "contentType", <<>>),
   skillLevel  |-> Field(params, "skillLevel", ""),
   sortBy      |-> Field(params, "sortBy", "relevance"),
   limit       |-> Field(params, "limit", Num(DefaultLimit)),
   page        |-> Field(params, "page", Num(1)),
   minViews    |-> Field(params, "minViews", Num(0)),
   maxDuration |-> Field(params, "maxDuration", Num(0)),
   dateFrom    |-> Field(params, "dateFrom", <<>>),
   dateTo      |-> Field(params, "dateTo", <<>>),
   channelId   |-> Field(params, "channelId", "")]

(***************************************************************************)
(* searchVideos: the predicate (dbQuery).                                  *)
(***************************************************************************)
\* query && query.trim() !== ''
TextGiven(query) == query # <<>> /\ Trim(query) # <<>>

\* Mutant of ArrayGiven: the length of the array is not looked at.
ArrayGiven_NoLength(list) == TRUE

\* Array.isArray(list) && list.length > 0
ArrayGiven(list) == Len(list) > 0

\* dbQuery: `keys` are the constraints present in the object.
BuildQuery(p) ==
  [keys |->
        (IF TextGiven(p.query) THEN {"$text"} ELSE {})
     \cup (IF ArrayGiven(p.brawlers) THEN {"brawlers"} ELSE {})
     \cup (IF ArrayGiven(p.gameModes) THEN {"gameModes"} ELSE {})
     \cup (IF ArrayGiven(p.contentType) THEN {"contentType"} ELSE {})
     \cup (IF p.skillLevel # "" THEN {"skillLevel"} ELSE {})
     \cup (IF p.channelId # "" THEN {"creator.id"} ELSE {})
     \cup (IF JsGt0(p.minViews) THEN {"viewCount"} ELSE {})
     \cup (IF JsGt0(p.maxDuration) THEN {"duration"} ELSE {})
     \cup (IF p.dateFrom # <<>> THEN {"publishedAt.$gte"} ELSE {})
     \cup (IF p.dateTo # <<>> THEN {"publishedAt.$lte"} ELSE {}),
   text           |-> p.query,
   brawlers       |-> p.brawlers,
   gameModes      |-> p.gameModes,
   contentType    |-> p.contentType,
   skillLevel     |-> p.skillLevel,
   creatorId      |-> p.channelId,
   viewCountGte   |-> ParseIntNum(p.minViews),
   durationLte    |-> ParseIntNum(p.maxDuration),
   publishedAtGte |-> p.dateFrom,
   publishedAtLte |-> p.dateTo]

(***************************************************************************)
(* The storage layer: text search, find, sort, skip, limit.                *)
(***************************************************************************)
TitleWeight == 10

DescriptionWeight == 5

TranscriptWeight == 1

\* The search terms of a $search string: its words.
Terms(text) == {text[i] : i \in 1..Len(text)} \ {" "}

\* The text score of a record for one term, by the weights of the text index.
TermScore(v, t) ==
    (IF t \in v.title THEN TitleWeight ELSE 0)
  + (IF t \in v.description THEN DescriptionWeight ELSE 0)
  + (IF t \in v.transcript THEN TranscriptWeight ELSE 0)

RECURSIVE SumTermScores(_, _)
SumTermScores(v, terms) ==
  IF terms = {} THEN 0
  ELSE LET t == CHOOSE x \in terms : TRUE
       IN TermScore(v, t) + SumTermScores(v, terms \ {t})

\* { $meta: 'textScore' }
TextScore(v, text) == SumTermScores(v, Terms(text))

\* Mutant of InArray: $all in place of $in.
InArray_All(field, list) == \A i \in 1..Len(list) : list[i] \in field

\* { field: { $in: list } } on an array field.
InArray(field, list) == \E i \in 1..Len(list) : list[i] \in field

\* Whether record v satisfies dbQuery q.  A comparison with NaN matches no
\* record.
Matches(v, q) ==
  /\ "$text" \in q.keys => TextScore(v, q.text) > 0
  /\ "brawlers" \in q.keys => InArray(v.brawlers, q.brawlers)
  /\ "gameModes" \in q.keys => InArray(v.gameModes, q.gameModes)
  /\ "contentType" \in q.keys => InArray(v.contentType, q.contentType)
  /\ "skillLevel" \in q.keys => v.skillLevel = q.skillLevel
  /\ "creator.id" \in q.keys => v.creatorId = q.creatorId
  /\ "viewCount" \in q.keys =>
       IsNum(q.viewCountGte) /\ v.viewCount >= q.viewCountGte.v
  /\ "duration" \in q.keys =>
       IsNum(q.durationLte) /\ v.duration <= q.durationLte.v
  /\ "publishedAt.$gte" \in q.keys => StrLeq(q.publishedAtGte, v.publishedAt)
  /\ "publishedAt.$lte" \in q.keys => StrLeq(v.publishedAt, q.publishedAtLte)

\* a sorts strictly before b on one descending sort field.
FieldGreater(a, b, f, text) ==
  CASE f = "score" -> TextScore(a, text) > TextScore(b, text)
    [] f = "publishedAt" -> StrLess(b.publishedAt, a.publishedAt)
    [] f = "viewCount" -> a.viewCount > b.viewCount
    [] f = "popularity" -> a.popularity > b.popularity
    [] f = "recency" -> a.recency > b.recency

FieldEqual(a, b, f, text) ==
  ~FieldGreater(a, b, f, text) /\ ~FieldGreater(b, a, f, text)

\* a sorts strictly before b under the sort specification (all descending).
Before(a, b, sortOptions, text) ==
  \E i \in 1..Len(sortOptions) :
    /\ \A j \in 1..(i - 1) : FieldEqual(a, b, sortOptions[j], text)
    /\ FieldGreater(a, b, sortOptions[i], text)

Perms(S) ==
  {f \in [1..Cardinality(S) -> S] :
     \A i, j \in 1..Cardinality(S) : i # j => f[i] # f[j]}

\* cursor.sort: every order of the records that respects the sort
\* specification; records that compare equal come in any order.
SortedSeqs(S, sortOptions, text) ==
  {s \in Perms(S) :
     \A i \in 1..(Cardinality(S) - 1) : ~Before(s[i + 1], s[i], sortOptions, text)}

\* cursor.skip(skip).limit(limit) on a sorted sequence: limit 0 is no limit,
\* a negative limit is its absolute value.
SkipLimit(s, skip, limit) ==
  LET n == IF limit = 0 THEN Len(s) ELSE IF limit < 0 THEN 0 - limit ELSE limit
      last == IF skip + n < Len(s) THEN skip + n ELSE Len(s)
  IN [i \in 1..(IF last > skip THEN last - skip ELSE 0) |-> s[skip + i]]

(***************************************************************************)
(* searchVideos.                                                           *)
(***************************************************************************)
\* Mutant of SortOptions: the default case sorts by view count.
SortOptions_DefaultViews(sortBy, query) ==
  CASE sortBy = "relevance" ->
         IF TextGiven(query) THEN <<"score">> ELSE <<"popularity">>
    [] sortBy = "recent" -> <<"publishedAt">>
    [] sortBy = "popular" -> <<"viewCount">>
    [] sortBy = "trending" -> <<"recency", "popularity">>
    [] OTHER -> <<"viewCount">>

\* Mutant of SortOptions: trending without its second key.
SortOptions_NoTieBreak(sortBy, query) ==
  CASE sortBy = "relevance" ->
         IF TextGiven(query) THEN <<"score">> ELSE <<"popularity">>
    [] sortBy = "recent" -> <<"publishedAt">>
    [] sortBy = "popular" -> <<"viewCount">>
    [] sortBy = "trending" -> <<"recency">>
    [] OTHER -> <<"popularity">>

\* The switch on sortBy: the sort specification, every field descending.
SortOptions(sortBy, query) ==
  CASE sortBy = "relevance" ->
         IF TextGiven(query) THEN <<"score">> ELSE <<"popularity">>
    [] sortBy = "recent" -> <<"publishedAt">>
    [] sortBy = "popular" -> <<"viewCount">>
    [] sortBy = "trending" -> <<"recency", "popularity">>
    [] OTHER -> <<"popularity">>

\* (parseInt(page) - 1) * parseInt(limit)
SkipOf(page, limit) ==
  IF IsNum(page) /\ IsNum(limit) THEN Num((page.v - 1) * limit.v) ELSE NaN

\* pagination of the returned object
Pagination(total, page, limit) ==
  [total |-> total, page |-> page, limit |-> limit, pages |-> CeilDiv(total, limit)]

Failure(dbQuery, sortOptions) ==
  [status |-> "error", videos |-> <<>>, pagination |-> Pagination(0, NaN, NaN),
   dbQuery |-> dbQuery, sortOptions |-> sortOptions]

\* What searchVideos(params) throws when MongoDB does not answer.
StorageFailure(params) ==
  Failure(BuildQuery(Destructure(params)),
          SortOptions(Destructure(params).sortBy, Destructure(params).query))

\* Every result searchVideos(params) can return on the collection `store`.
\* The storage layer rejects a skip that is negative or NaN and a limit that is
\* NaN: the error is logged and thrown again.
SearchVideosResults(store, params) ==
  LET p           == Destructure(params)
      dbQuery     == BuildQuery(p)
      sortOptions == SortOptions(p.sortBy, p.query)
      page        == ParseIntNum(p.page)
      limit       == ParseIntNum(p.limit)
      skip        == SkipOf(page, limit)
      matched     == {v \in store : Matches(v, dbQuery)}
      total       == Cardinality(matched)
  IN IF ~IsNum(skip) \/ skip.v < 0 \/ ~IsNum(limit)
     THEN {Failure(dbQuery, sortOptions)}
     ELSE {[status      |-> "ok",
            videos      |-> SkipLimit(s, skip.v, limit.v),
            pagination  |-> Pagination(total, page, limit),
            dbQuery     |-> dbQuery,
            sortOptions |-> sortOptions] :
           s \in SortedSeqs(matched, sortOptions, p.query)}

(***************************************************************************)
(* Callers.  In these specifications the operations are called one at a    *)
(* time: an operation is called when no call is outstanding, and Return    *)
(* is its caller taking the result.                                        *)
(***************************************************************************)
NoCall == [op |-> "none"]

NoResult == [status |-> "none"]

Idle == call = NoCall

Return ==
  /\ ~Idle
  /\ call' = NoCall
  /\ result' = NoResult
  /\ UNCHANGED <<videos, searchHistory, metrics, aside>>

(***************************************************************************)
(* The storage collaborator and the clock.                                 *)
(***************************************************************************)
\* What an operation returns: one of `results` when MongoDB answers; when it
\* does not, the driver call rejects, the catch block logs the error and
\* throws it again.
Answered(results, failure) == IF storage = "down" THEN {failure} ELSE results

\* MongoDB stops answering, or answers again, between two calls.
Outage ==
  /\ Idle
  /\ storage = "up"
  /\ storage' = "down"
  /\ UNCHANGED <<videos, searchHistory, metrics, call, result,
                 now, connected, uniqueIndex, saves, retry, apart>>

Restore ==
  /\ Idle
  /\ storage = "down"
  /\ storage' = "up"
  /\ UNCHANGED <<videos, searchHistory, metrics, call, result,
                 now, connected, uniqueIndex, saves, retry, apart>>

\* The first day of the model and the last one the clock reaches.
FirstDay == 40

\* A day passes.
Tick ==
  /\ Idle
  /\ now < MaxDay
  /\ now' = now + 1
  /\ UNCHANGED <<videos, searchHistory, metrics, call, result,
                 storage, connected, uniqueIndex, saves, retry, apart>>

\* date.toISOString(), to the day.
ToISOString(day) == <<day \div 10, day % 10>>

\* startDate.setDate(startDate.getDate() - days); startDate.toISOString()
StartDate(day, days) == ToISOString(day - days)

(***************************************************************************)
(* saveVideo.                                                              *)
(***************************************************************************)
\* findOne({ youtubeId })
FindByYoutubeId(store, youtubeId) == {v \in store : v.youtubeId = youtubeId}

\* saveVideo(videoData): a new youtubeId is inserted.  For a stored youtubeId
\* the update document names `timestamps` under both $set and $setOnInsert,
\* which the storage layer rejects as conflicting: the error is thrown again
\* and the collection is left as it was, as it is when MongoDB does not answer.
SaveVideo ==
  /\ Idle
  /\ \E videoData \in VideoData :
    /\ call' = [op |-> "saveVideo", youtubeId |-> videoData.youtubeId]
    /\ IF storage = "down" \/ FindByYoutubeId(videos, videoData.youtubeId) # {}
       THEN /\ result' = [status |-> "error"]
            /\ UNCHANGED videos
       ELSE /\ Cardinality(videos) < MaxStored
            /\ videos' = videos \cup {FormatVideo(videoData)}
            /\ result' = [status |-> "ok"]
    /\ UNCHANGED <<searchHistory, metrics, aside>>

(***************************************************************************)
(* The parameter objects searchVideos is called with.                      *)
(***************************************************************************)
\* p with field f set to each value of `values`, or left undefined.
Vary(P, f, values) == P \cup {With(p, f, x) : p \in P, x \in values}

BrawlerFilters == {<<>>, <<"Mortis">>, <<"Shelly", "Colt">>, <<"Bull">>}

GameModeFilters == {<<>>, <<"Brawl Ball">>}

ContentTypeFilters == {<<>>, <<"gameplay", "tutorial">>}

Queries == {<<>>, <<" ">>, <<"mortis">>, <<" ", "colt", " ", "mortis">>}

SortBys == {"relevance", "recent", "popular", "trending", "banana", ""}

\* The classification filters, with every sort order.
ArrayParams ==
  Vary(Vary(Vary(Vary({NoParams}, "brawlers", BrawlerFilters),
                 "gameModes", GameModeFilters),
            "contentType", ContentTypeFilters),
       "sortBy", {"popular", "recent", "trending"})

\* The free text with every sort order.
TextParams ==
  Vary(Vary(Vary({NoParams}, "query", Queries), "sortBy", SortBys),
       "brawlers", {<<"Mortis">>})

\* The pages.
PageParams ==
  Vary(Vary(Vary(Vary({NoParams}, "page", {Num(n) : n \in 1..MaxPage}),
                 "limit", {Num(n) : n \in 1..MaxLimit}),
            "sortBy", {"popular", "banana"}),
       "brawlers", {<<"Mortis">>})

\* The numeric, date and exact-match filters.
ScalarParams ==
  Vary(Vary(Vary(Vary(Vary(Vary({NoParams},
       "minViews", {Num(0), Num(500000), NaN}),
       "maxDuration", {Num(0), Num(300), NaN}),
       "dateFrom", {<<>>, <<0, 2>>}),
       "dateTo", {<<>>, <<0, 2>>}),
       "skillLevel", {"", "advanced"}),
       "channelId", {"", "c1"})

SearchParams == ArrayParams \cup TextParams \cup PageParams \cup ScalarParams

SearchVideos ==
  /\ Idle
  /\ \E params \in SearchParams :
    \E r \in Answered(SearchVideosResults(videos, params), StorageFailure(params)) :
      /\ call' = [op |-> "searchVideos", params |-> params]
      /\ result' = r
      /\ UNCHANGED <<videos, searchHistory, metrics, aside>>

(***************************************************************************)
(* GET /api/search.                                                        *)
(***************************************************************************)
RouteDefaultLimit == 10

\* A query-string value of an array parameter: one string (isArray FALSE,
\* items holds it) or, when the parameter is repeated, an array of strings.
One(str) == [isArray |-> FALSE, items |-> <<str>>]

Many(strs) == [isArray |-> TRUE, items |-> strs]

\* req.query with every parameter absent.
NoQuery ==
  [query |-> <<>>, brawlers |-> One(""), gameModes |-> One(""),
   contentType |-> One(""), skillLevel |-> "", sortBy |-> "", limit |-> <<>>,
   page |-> <<>>, minViews |-> <<>>, maxDuration |-> <<>>, dateFrom |-> <<>>,
   dateTo |-> <<>>, channelId |-> "", undef |-> ParamFields]

\* x ? (Array.isArray(x) ? x : [x]) : []
ParseArrayParam(q, f) ==
  IF f \in q.undef THEN <<>>
  ELSE IF q[f].isArray THEN q[f].items
  ELSE IF q[f].items[1] = "" THEN <<>>
  ELSE q[f].items

\* parseInt(x) of a parameter with a default for the absent one.
ParseIntParam(q, f, default) ==
  IF f \in q.undef THEN ParseIntNum(Num(default)) ELSE ParseIntStr(q[f])

\* parseInt(x || 0)
ParseIntOrZero(q, f) ==
  IF f \in q.undef \/ q[f] = <<>> THEN ParseIntNum(Num(0)) ELSE ParseIntStr(q[f])

\* The object the route hands to searchVideos.
RouteParams(q) ==
  [query       |-> q.query,
   brawlers    |-> ParseArrayParam(q, "brawlers"),
   gameModes   |-> ParseArrayParam(q, "gameModes"),
   contentType |-> ParseArrayParam(q, "contentType"),
   skillLevel  |-> q.skillLevel,
   sortBy      |-> q.sortBy,
   page        |-> ParseIntParam(q, "page", 1),
   limit       |-> ParseIntParam(q, "limit", RouteDefaultLimit),
   minViews    |-> ParseIntOrZero(q, "minViews"),
   maxDuration |-> ParseIntOrZero(q, "maxDuration"),
   dateFrom    |-> q.dateFrom,
   dateTo      |-> q.dateTo,
   channelId   |-> q.channelId,
   undef       |-> q.undef \cap
                   {"query", "skillLevel", "sortBy", "dateFrom", "dateTo", "channelId"}]

PageStrings == {<<"1">>, <<"2">>, <<"0">>, <<"-", "1">>, <<"a", "b">>}

LimitStrings == {<<"1">>, <<"2">>, <<"0">>, <<"1", "0", "0", "0">>, <<"x">>}

ViewStrings == {<<>>, <<"5", "0", "0", "0", "0", "0">>, <<"a", "b">>, <<"-", "5">>}

DurationStrings == {<<"3", "0", "0">>, <<"3", "0", "0", "s">>, <<"a", "b">>, <<"0">>}

DateStrings == {<<>>, <<0, 2>>}

PageRequests ==
  Vary(Vary(Vary({NoQuery}, "page", PageStrings), "limit", LimitStrings),
       "brawlers", {One("Mortis")})

NumberRequests ==
  Vary(Vary(Vary(Vary({NoQuery}, "minViews", ViewStrings),
                 "maxDuration", DurationStrings),
            "dateFrom", DateStrings),
       "dateTo", DateStrings)

ArrayRequests ==
  Vary(Vary(Vary(Vary({NoQuery},
       "brawlers", {One(""), One("Mortis"), Many(<<"Mortis", "Mortis">>),
                    Many(<<"", "Colt">>)}),
       "gameModes", {One("Brawl Ball")}),
       "sortBy", {"banana", "popular"}),
       "query", {<<>>, <<"colt">>})

Requests == PageRequests \cup NumberRequests \cup ArrayRequests

\* saveSearchQuery: one row of the searchHistory collection.
SearchRow(query, day) == [query |-> query, timestamp |-> ToISOString(day)]

\* Mutant of Swallowed: the catch block throws the error again.
Swallowed_Thrown == [status |-> "error"]

\* The catch block of saveSearchQuery and of recordMetric: the error is logged
\* and the function returns.
Swallowed == [status |-> "ok"]

\* The handler of GET /api/search: a failure of searchVideos goes to the error
\* middleware (500); otherwise the query, if any, is saved to the search
\* history, a metric row is recorded and the results are sent (200).  Each of
\* the two rows is written or, when MongoDB refuses it or has stopped
\* answering since the search, not written; a rejection of saveSearchQuery,
\* which is awaited, would go to the error middleware too.
ApiSearchOf(requests) ==
  /\ Idle
  /\ \E q \in requests :
    \E r \in Answered(SearchVideosResults(videos, RouteParams(q)),
                       StorageFailure(RouteParams(q))) :
     \E written, recorded \in BOOLEAN :
      LET given == "query" \notin q.undef /\ q.query # <<>>
          saved == IF given /\ ~written THEN Swallowed ELSE [status |-> "ok"]
      IN
      /\ call' = [op |-> "GET /api/search", query |-> q, params |-> RouteParams(q)]
      /\ IF r.status = "error"
         THEN /\ result' = r
              /\ UNCHANGED <<searchHistory, metrics>>
         ELSE /\ metrics < MaxRequests
              /\ Len(searchHistory) < MaxHistory
              /\ searchHistory' =
                   IF given /\ written
                   THEN Append(searchHistory, SearchRow(q.query, now))
                   ELSE searchHistory
              /\ metrics' = IF saved.status = "ok" /\ recorded
                            THEN metrics + 1 ELSE metrics
              /\ result' = IF saved.status = "ok" THEN r
                           ELSE StorageFailure(RouteParams(q))
      /\ UNCHANGED <<videos, aside>>

ApiSearch == ApiSearchOf(Requests)

\* Requests with and without a query, and with a limit that is not a number.
QueryRequests ==
  Vary(Vary({NoQuery}, "query", {<<"colt">>, <<"mortis">>}), "limit", {<<"x">>})

\* GET /api/search with one of them.
ApiSearchQuery == ApiSearchOf(QueryRequests)

(***************************************************************************)
(* getVideoRecommendations.                                                *)
(***************************************************************************)
RecommendationLimit == 6

BrawlerPoints == 3

GameModePoints == 2

ContentTypePoints == 1

CreatorBonus == 4

PopularityPoints == 5

RecencyPoints == 3

\* The elements of an array.
Elems(list) == {list[i] : i \in 1..Len(list)}

\* userPreferences && userPreferences.preferredBrawlers && length > 0
HasPreferredBrawlers(userPreferences) ==
  userPreferences.given /\ Len(userPreferences.preferredBrawlers) > 0

\* Mutant of SimilarityScore: the creator bonus is never given.
SimilarityScore_NoCreator(v, source, userPreferences) ==
    BrawlerPoints * Cardinality(v.brawlers \cap source.brawlers)
  + GameModePoints * Cardinality(v.gameModes \cap source.gameModes)
  + ContentTypePoints * Cardinality(v.contentType \cap source.contentType)
  + (IF HasPreferredBrawlers(userPreferences)
     THEN Cardinality(v.brawlers \cap Elems(userPreferences.preferredBrawlers))
     ELSE 0)

\* similarityScore of candidate v for the source video, the preference boost
\* added when preferred brawlers are supplied.
SimilarityScore(v, source, userPreferences) ==
    BrawlerPoints * Cardinality(v.brawlers \cap source.brawlers)
  + GameModePoints * Cardinality(v.gameModes \cap source.gameModes)
  + ContentTypePoints * Cardinality(v.contentType \cap source.contentType)
  + (IF v.creatorId = source.creatorId THEN CreatorBonus ELSE 0)
  + (IF HasPreferredBrawlers(userPreferences)
     THEN Cardinality(v.brawlers \cap Elems(userPreferences.preferredBrawlers))
     ELSE 0)

\* finalScore, in tenths: popularity and recency are held in tenths.
FinalScore(v, similarityScore) ==
  10 * similarityScore + PopularityPoints * v.popularity + RecencyPoints * v.recency

\* The candidate with the fields the pipeline adds.
Scored(v, source, userPreferences) ==
  LET sim == SimilarityScore(v, source, userPreferences)
  IN [f \in DOMAIN v \cup {"similarityScore", "finalScore"} |->
        IF f = "similarityScore" THEN sim
        ELSE IF f = "finalScore" THEN FinalScore(v, sim)
        ELSE v[f]]

\* Mutant of RankedBefore: { finalScore: -1 } alone.
RankedBefore_NoTieBreak(a, b) == a.finalScore > b.finalScore

\* a sorts strictly before b under { finalScore: -1, publishedAt: -1 }.
RankedBefore(a, b) ==
  \/ a.finalScore > b.finalScore
  \/ a.finalScore = b.finalScore /\ StrLess(b.publishedAt, a.publishedAt)

\* $sort: every order that respects the sort keys.
RankedSeqs(S) ==
  {s \in Perms(S) : \A i \in 1..(Cardinality(S) - 1) : ~RankedBefore(s[i + 1], s[i])}

\* $limit
Truncate(s, n) == SubSeq(s, 1, IF n < Len(s) THEN n ELSE Len(s))

\* Mutant of LimitOrDefault: the default is 0.
LimitOrDefault_Zero(limit) ==
  IF limit = <<>> THEN Num(0) ELSE limit[1]

\* The limit argument: <<>> when it is not passed, <<n>> when it is.
LimitOrDefault(limit) ==
  IF limit = <<>> THEN Num(RecommendationLimit) ELSE limit[1]

\* Every result getVideoRecommendations(youtubeId, limit, userPreferences) can
\* return: an unknown source video is an error, and so is a $limit that is not
\* a positive number.
RecommendationResults(store, youtubeId, limit, userPreferences) ==
  LET found == FindByYoutubeId(store, youtubeId)
      n     == ParseIntNum(LimitOrDefault(limit))
  IN IF found = {} \/ ~IsNum(n) \/ n.v <= 0
     THEN {[status |-> "error", videos |-> <<>>]}
     ELSE LET source     == CHOOSE v \in found : TRUE
              candidates == {v \in store : v.youtubeId # youtubeId}
          IN {[status |-> "ok", videos |-> Truncate(s, n.v)] :
              s \in RankedSeqs({Scored(v, source, userPreferences) : v \in candidates})}

UserPreferences ==
  {[given |-> FALSE, preferredBrawlers |-> <<>>],
   [given |-> TRUE, preferredBrawlers |-> <<>>],
   [given |-> TRUE, preferredBrawlers |-> <<"Mortis">>],
   [given |-> TRUE, preferredBrawlers |-> <<"Colt", "Shelly">>]}

GetVideoRecommendations ==
  /\ Idle
  /\ \E youtubeId \in {"v1", "v2", "v5", "v9"},
     limit \in {<<>>} \cup {<<Num(n)>> : n \in 0..MaxLimit},
     userPreferences \in UserPreferences :
    \E r \in Answered(RecommendationResults(videos, youtubeId, limit, userPreferences),
                       [status |-> "error", videos |-> <<>>]) :
      /\ call' = [op |-> "getVideoRecommendations", youtubeId |-> youtubeId,
                  limit |-> limit, userPreferences |-> userPreferences]
      /\ result' = r
      /\ UNCHANGED <<videos, searchHistory, metrics, aside>>

\* The caller asks again, with the same arguments, while it still holds the
\* answer to its last call.
GetVideoRecommendationsAgain ==
  /\ call.op = "getVideoRecommendations"
  /\ \E r \in Answered(RecommendationResults(videos, call.youtubeId, call.limit,
                                             call.userPreferences),
                       [status |-> "error", videos |-> <<>>]) :
       result' = r
  /\ UNCHANGED <<videos, searchHistory, metrics, call, aside>>

(***************************************************************************)
(* getTrendingBrawlers.  The score count + 2 * log10(totalViews + 1) is    *)
(* held as 10^score = 10^count * (totalViews + 1)^2, an exact integer that *)
(* orders as the score does; it is written in base 10000, least            *)
(* significant limb first, to stay within the integers of the checker.     *)
(***************************************************************************)
TrendingDefaultLimit == 10

DefaultDays == 30

CountWeight == 1

ViewsWeight == 2

LimbBase == 10000

Limbs == 6

ToLimbs(n) ==
  [k \in 1..Limbs |->
     IF k = 1 THEN n % LimbBase
     ELSE IF k = 2 THEN (n \div LimbBase) % LimbBase
     ELSE IF k = 3 THEN n \div (LimbBase * LimbBase)
     ELSE 0]

RECURSIVE Convolve(_, _, _, _)
Convolve(x, y, k, i) ==
  IF i > k THEN 0 ELSE x[i] * y[k + 1 - i] + Convolve(x, y, k, i + 1)

RECURSIVE TimesFrom(_, _, _, _)
TimesFrom(x, y, k, carry) ==
  IF k > Limbs THEN <<>>
  ELSE LET t == Convolve(x, y, k, 1) + carry
       IN <<t % LimbBase>> \o TimesFrom(x, y, k + 1, t \div LimbBase)

\* x * y
Times(x, y) == TimesFrom(x, y, 1, 0)

RECURSIVE Power(_, _)
Power(x, n) == IF n = 0 THEN ToLimbs(1) ELSE Times(x, Power(x, n - 1))

RECURSIVE LessFrom(_, _, _)
LessFrom(x, y, k) ==
  IF k = 0 THEN FALSE
  ELSE IF x[k] # y[k] THEN x[k] < y[k]
  ELSE LessFrom(x, y, k - 1)

\* x < y
Less(x, y) == LessFrom(x, y, Limbs)

\* Mutant of TrendingScore: the view term has the weight of the count.
TrendingScore_ViewsWeightOne(count, totalViews) ==
  Times(Power(ToLimbs(10), CountWeight * count),
        Power(ToLimbs(totalViews + 1), CountWeight))

\* $add: [count * 1, $log10(totalViews + 1) * 2], as 10^score.
TrendingScore(count, totalViews) ==
  Times(Power(ToLimbs(10), CountWeight * count),
        Power(ToLimbs(totalViews + 1), ViewsWeight))

\* $sum: "$viewCount" over a group.
RECURSIVE SumViews(_)
SumViews(S) ==
  IF S = {} THEN 0
  ELSE LET v == CHOOSE x \in S : TRUE
       IN v.viewCount + SumViews(S \ {v})

\* Mutant of InWindow: every record is in the window.
InWindow_Always(date, day, days) == TRUE

\* $match: { <date field>: { $gte: startDate.toISOString() } }
InWindow(date, day, days) == StrLeq(StartDate(day, days), date)

\* $unwind "$brawlers", $group by brawler, $addFields score, $project.
TrendingGroups(store, day, days) ==
  LET inWindow == {v \in store : InWindow(v.publishedAt, day, days)}
  IN {LET listing == {v \in inWindow : b \in v.brawlers}
      IN [brawler    |-> b,
          count      |-> Cardinality(listing),
          totalViews |-> SumViews(listing),
          score      |-> TrendingScore(Cardinality(listing), SumViews(listing))] :
      b \in UNION {v.brawlers : v \in inWindow}}

\* $sort: { score: -1 }: every order that respects the score.
ByScore(S) ==
  {s \in Perms(S) : \A i \in 1..(Cardinality(S) - 1) : ~Less(s[i].score, s[i + 1].score)}

\* An argument that is not passed is <<>>, one that is passed is <<x>>.
ArgOr(arg, default) == IF arg = <<>> THEN default ELSE arg[1]

\* Every result getTrendingBrawlers(limit, days) can return on day `day`: a
\* $limit that is not a positive number is refused by the aggregation.
TrendingResults(store, day, limit, days) ==
  LET n == ParseIntNum(ArgOr(limit, Num(TrendingDefaultLimit)))
  IN IF ~IsNum(n) \/ n.v <= 0
     THEN {[status |-> "error", brawlers |-> <<>>]}
     ELSE {[status |-> "ok", brawlers |-> Truncate(s, n.v)] :
           s \in ByScore(TrendingGroups(store, day, ArgOr(days, DefaultDays)))}

LimitArgs == {<<>>} \cup {<<Num(n)>> : n \in 0..MaxLimit}

DaysArgs == {<<>>, <<FirstDay - 2>>, <<FirstDay - 1>>}

\* Mutant of GetTrendingBrawlers: the records outside the window are deleted.
GetTrendingBrawlers_Pruning ==
  /\ Idle
  /\ \E limit \in LimitArgs, days \in DaysArgs :
    \E r \in Answered(TrendingResults(videos, now, limit, days),
                      [status |-> "error", brawlers |-> <<>>]) :
      /\ call' = [op |-> "getTrendingBrawlers", limit |-> limit, days |-> days]
      /\ result' = r
      /\ videos' = {v \in videos : InWindow(v.publishedAt, now, ArgOr(days, DefaultDays))}
      /\ UNCHANGED <<searchHistory, metrics, aside>>

GetTrendingBrawlers ==
  /\ Idle
  /\ \E limit \in LimitArgs, days \in DaysArgs :
    \E r \in Answered(TrendingResults(videos, now, limit, days),
                      [status |-> "error", brawlers |-> <<>>]) :
      /\ call' = [op |-> "getTrendingBrawlers", limit |-> limit, days |-> days]
      /\ result' = r
      /\ UNCHANGED <<videos, searchHistory, metrics, aside>>

(***************************************************************************)
(* saveSearchQuery and getPopularSearchQueries.                            *)
(***************************************************************************)
PopularDefaultLimit == 10

\* saveSearchQuery(query): the row is inserted; a failure is logged and not
\* thrown.
SaveSearchQuery ==
  /\ Idle
  /\ Len(searchHistory) < MaxHistory
  /\ \E query \in {<<"mortis">>, <<"colt">>, <<"shelly">>} :
       /\ call' = [op |-> "saveSearchQuery", query |-> query]
       /\ searchHistory' = IF storage = "up"
                           THEN Append(searchHistory, SearchRow(query, now))
                           ELSE searchHistory
  /\ result' = IF storage = "up" THEN [status |-> "ok"] ELSE Swallowed
  /\ UNCHANGED <<videos, metrics, aside>>

\* recordMetric(metricType, metricData), with ENABLE_PERFORMANCE_METRICS set:
\* the row is inserted; a failure is logged and not thrown.
RecordMetric ==
  /\ Idle
  /\ metrics < MaxRequests
  /\ call' = [op |-> "recordMetric"]
  /\ metrics' = IF storage = "up" THEN metrics + 1 ELSE metrics
  /\ result' = IF storage = "up" THEN [status |-> "ok"] ELSE Swallowed
  /\ UNCHANGED <<videos, searchHistory, aside>>

\* $match on the window, $group by query with $sum: 1, $project.
QueryGroups(history, day, days) ==
  LET rows == {i \in 1..Len(history) : InWindow(history[i].timestamp, day, days)}
  IN {[query |-> q, count |-> Cardinality({i \in rows : history[i].query = q})] :
      q \in {history[i].query : i \in rows}}

\* Mutant of ByCount: ascending.
ByCount_Ascending(S) ==
  {s \in Perms(S) : \A i \in 1..(Cardinality(S) - 1) : s[i].count <= s[i + 1].count}

\* $sort: { count: -1 }: every order that respects the count.
ByCount(S) ==
  {s \in Perms(S) : \A i \in 1..(Cardinality(S) - 1) : s[i].count >= s[i + 1].count}

\* Every result getPopularSearchQueries(limit, days, page) can return: the
\* aggregation refuses a $skip that is negative or NaN and a $limit that is
\* not a positive number.
PopularResults(history, day, limit, days, page) ==
  LET n     == ParseIntNum(ArgOr(limit, Num(PopularDefaultLimit)))
      pg    == ParseIntNum(ArgOr(page, Num(1)))
      skip  == SkipOf(pg, n)
      S     == QueryGroups(history, day, ArgOr(days, DefaultDays))
  IN IF ~IsNum(skip) \/ skip.v < 0 \/ ~IsNum(n) \/ n.v <= 0
     THEN {[status |-> "error", queries |-> <<>>, pagination |-> Pagination(0, NaN, NaN)]}
     ELSE {[status     |-> "ok",
            queries    |-> SkipLimit(s, skip.v, n.v),
            pagination |-> Pagination(Cardinality(S), pg, n)] :
           s \in ByCount(S)}

PageArgs == {<<>>} \cup {<<Num(n)>> : n \in 0..MaxPage}

HistoryDays == {<<>>, <<0>>}

GetPopularSearchQueries ==
  /\ Idle
  /\ \E limit \in LimitArgs, days \in HistoryDays, page \in PageArgs :
    \E r \in Answered(PopularResults(searchHistory, now, limit, days, page),
                      [status |-> "error", queries |-> <<>>,
                       pagination |-> Pagination(0, NaN, NaN)]) :
      /\ call' = [op |-> "getPopularSearchQueries", limit |-> limit, days |-> days,
                  page |-> page]
      /\ result' = r
      /\ UNCHANGED <<videos, searchHistory, metrics, aside>>

(***************************************************************************)
(* getPersonalizedRecommendations of the conversation service.             *)
(***************************************************************************)
PersonalizedTrending == 5

PersonalizedQueries == 5

TargetBrawlers == 3

\* list.slice(0, n)
Slice(list, n) == SubSeq(list, 1, IF n < Len(list) THEN n ELSE Len(list))

\* The object returned from the catch block.
Apology ==
  [status |-> "ok", videos |-> <<>>, explanation |-> "apology",
   trendingBrawlers |-> <<>>, popularQueries |-> <<>>]

\* searchParams: the user's brawlers first, the trending ones otherwise.
PersonalizedParams(userPreferences, trending, limit) ==
  LET userBrawlers == userPreferences.preferredBrawlers
      names        == [i \in 1..Len(trending) |-> trending[i].brawler]
  IN With(With(With(With(With(NoParams,
       "brawlers", IF Len(userBrawlers) > 0 THEN Slice(userBrawlers, TargetBrawlers)
                   ELSE Slice(names, TargetBrawlers)),
       "gameModes", <<>>),
       "contentType", <<"gameplay", "tutorial">>),
       "sortBy", "trending"),
       "limit", limit)

\* Every result getPersonalizedRecommendations(userPreferences, limit) can
\* return: whatever one of the three database calls throws is caught and the
\* apology is returned in its place.
PersonalizedResults(userPreferences, limit) ==
  UNION {
    IF t.status = "error" THEN {Apology}
    ELSE UNION {
      IF q.status = "error" THEN {Apology}
      ELSE {IF r.status = "error" THEN Apology
            ELSE [status |-> "ok", videos |-> r.videos, explanation |-> "featuring",
                  trendingBrawlers |-> t.brawlers, popularQueries |-> q.queries] :
            r \in Answered(SearchVideosResults(videos,
                             PersonalizedParams(userPreferences, t.brawlers, limit)),
                           StorageFailure(NoParams))} :
      q \in Answered(PopularResults(searchHistory, now, <<Num(PersonalizedQueries)>>,
                                    <<>>, <<>>),
                     [status |-> "error"])} :
    t \in Answered(TrendingResults(videos, now, <<Num(PersonalizedTrending)>>, <<>>),
                   [status |-> "error"])}

GetPersonalizedRecommendations ==
  /\ Idle
  /\ \E userPreferences \in UserPreferences, limit \in {Num(RecommendationLimit), Num(1)} :
    \E r \in PersonalizedResults(userPreferences, limit) :
      /\ call' = [op |-> "getPersonalizedRecommendations",
                  userPreferences |-> userPreferences, limit |-> limit]
      /\ result' = r
      /\ UNCHANGED <<videos, searchHistory, metrics, aside>>

(***************************************************************************)
(* The connection of the module and saveVideo step by step, for callers    *)
(* that run concurrently: every await of the code is a point where another *)
(* caller may run.                                                         *)
(***************************************************************************)
Retries == 5

Callers == {"a", "b", "c"}

Waiting ==
  [pc |-> "waiting", op |-> "", video |-> "", existing |-> FALSE,
   attempt |-> 0, retries |-> 0, initial |-> 0, delay |-> 0, waits |-> <<>>,
   lastError |-> <<>>, error |-> <<>>]

\* v1 collected again later, with more views.
Recollected ==
  [(CHOOSE v \in VideoData : v.youtubeId = "v1") EXCEPT !.viewCount = 600000]

Uploads == {v \in VideoData : v.youtubeId = "v1"} \cup {Recollected}

\* Two stored records share a youtubeId.
DuplicateYoutubeId(store) ==
  \E a, b \in store : a # b /\ a.youtubeId = b.youtubeId

\* Delays are held in sixteenths of a millisecond, so that delay *= 1.5 is
\* exact.
DelayUnit == 16

\* delay = 5000
DefaultDelay == 5000 * DelayUnit

\* Mutant of NextDelay: the delay is doubled.
NextDelay_Doubled(delay) == delay * 2

\* delay *= 1.5
NextDelay(delay) == (delay * 3) \div 2

\* connectToDatabase(retries, delay) as a caller enters it: nothing is
\* attempted when the module is connected, otherwise the loop starts.
Entered(op, video, retries, delay) ==
  [Waiting EXCEPT
     !.pc = IF connected THEN (IF op = "saveVideo" THEN "find" ELSE "resolved")
            ELSE "connect",
     !.op = op, !.video = video,
     !.attempt = IF connected THEN 0 ELSE 1,
     !.retries = retries, !.initial = delay, !.delay = delay]

\* saveVideo(videoData) is called: ensureConnection calls connectToDatabase()
\* when the module is not connected.
SaveCalled(c) ==
  /\ saves[c].pc = "waiting"
  /\ \E videoData \in Uploads :
       saves' = [saves EXCEPT ![c] =
                   Entered("saveVideo", videoData, Retries, DefaultDelay)]
  /\ UNCHANGED <<videos, searchHistory, metrics, call, result,
                 now, storage, connected, uniqueIndex, retry, apart>>

\* The arguments connectToDatabase is called with; <<>> for one left out.
RetriesArgs == {<<>>} \cup {<<n>> : n \in 1..MaxAttempts}

DelayArgs == {<<>>, <<1000 * DelayUnit>>}

\* connectToDatabase(retries, delay) is called.
ConnectToDatabase(c) ==
  /\ saves[c].pc = "waiting"
  /\ \E retries \in RetriesArgs : \E delay \in DelayArgs :
       saves' = [saves EXCEPT ![c] =
                   Entered("connectToDatabase", "",
                           IF retries = <<>> THEN Retries ELSE retries[1],
                           IF delay = <<>> THEN DefaultDelay ELSE delay[1])]
  /\ UNCHANGED <<videos, searchHistory, metrics, call, result,
                 now, storage, connected, uniqueIndex, retry, apart>>

\* The catch block of the loop: the error is kept; if another attempt is
\* allowed the delay is awaited and then multiplied, otherwise the loop ends
\* and the error that names the attempts and the last failure is thrown.
Caught(s, step) ==
  LET failure == [attempt |-> s.attempt, step |-> step]
  IN IF s.attempt < s.retries
     THEN [s EXCEPT !.pc = "wait", !.lastError = <<failure>>,
                    !.waits = Append(@, s.delay),
                    !.delay = NextDelay(s.delay)]
     ELSE [s EXCEPT !.pc = "failed", !.lastError = <<failure>>,
                    !.error = <<[attempts |-> s.retries, message |-> failure]>>]

\* connectToDatabase: client = new MongoClient(...) and client.connect().
\* When it resolves, db and connected are set; when it rejects, the error is
\* caught.  The new object replaces the one `client` referred to.
Connect(c) ==
  /\ saves[c].pc = "connect"
  /\ Len(clients) < MaxClients
  /\ client' = Len(clients) + 1
  /\ IF storage = "up"
     THEN /\ clients' = Append(clients, "open")
          /\ connected' = TRUE
          /\ saves' = [saves EXCEPT ![c].pc = "initialize"]
     ELSE /\ clients' = Append(clients, "created")
          /\ UNCHANGED connected
          /\ saves' = [saves EXCEPT ![c] = Caught(@, "connect")]
  /\ UNCHANGED <<videos, searchHistory, metrics, call, result,
                 now, storage, uniqueIndex, retry,
                 session, preferences, promptCache, search>>

\* connectToDatabase: the timer of the delay fires and the next attempt starts.
Wait(c) ==
  /\ saves[c].pc = "wait"
  /\ saves' = [saves EXCEPT ![c].pc = "connect", ![c].attempt = @ + 1]
  /\ UNCHANGED <<videos, searchHistory, metrics, call, result,
                 now, storage, connected, uniqueIndex, retry, apart>>

\* connectToDatabase: initializeCollections() resolves, or rejects when
\* MongoDB does not answer.
InitializeCollections(c) ==
  /\ saves[c].pc = "initialize"
  /\ saves' = [saves EXCEPT ![c] =
                 IF storage = "up" THEN [@ EXCEPT !.pc = "index"]
                 ELSE Caught(@, "initializeCollections")]
  /\ UNCHANGED <<videos, searchHistory, metrics, call, result,
                 now, storage, connected, uniqueIndex, retry, apart>>

\* connectToDatabase: createIndexes().  The unique index cannot be built over
\* records that share a youtubeId, nor when MongoDB does not answer: the error
\* is caught by the retry loop.  Otherwise connectToDatabase returns.
CreateIndexes(c) ==
  /\ saves[c].pc = "index"
  /\ IF storage = "down" \/ (DuplicateYoutubeId(videos) /\ ~uniqueIndex)
     THEN /\ UNCHANGED uniqueIndex
          /\ saves' = [saves EXCEPT ![c] = Caught(@, "createIndexes")]
     ELSE /\ uniqueIndex' = TRUE
          /\ saves' = [saves EXCEPT ![c].pc =
                         IF saves[c].op = "saveVideo" THEN "find" ELSE "resolved"]
  /\ UNCHANGED <<videos, searchHistory, metrics, call, result,
                 now, storage, connected, retry, apart>>

\* closeDatabaseConnection(): the client `client` refers to is closed and the
\* flag is cleared.
CloseDatabaseConnection ==
  /\ \A c \in Callers : saves[c].pc = "waiting"
  /\ client # 0
  /\ clients' = [clients EXCEPT ![client] = "closed"]
  /\ connected' = FALSE
  /\ UNCHANGED <<videos, searchHistory, metrics, call, result,
                 now, storage, uniqueIndex, saves, retry, client,
                 session, preferences, promptCache, search>>

\* saveVideo: existingVideo = findOne({ youtubeId })
FindOne(c) ==
  /\ saves[c].pc = "find"
  /\ LET existing == FindByYoutubeId(videos, saves[c].video.youtubeId) # {}
     IN saves' = [saves EXCEPT ![c].existing = existing,
                               ![c].pc = IF existing THEN "update" ELSE "insert"]
  /\ UNCHANGED <<videos, searchHistory, metrics, call, result,
                 now, storage, connected, uniqueIndex, retry, apart>>

\* saveVideo: insertOne.  With the unique index a second record of the same
\* youtubeId is refused (duplicate key) and the error is thrown again.
InsertOne(c) ==
  /\ saves[c].pc = "insert"
  /\ IF uniqueIndex /\ FindByYoutubeId(videos, saves[c].video.youtubeId) # {}
     THEN /\ UNCHANGED videos
          /\ saves' = [saves EXCEPT ![c].pc = "failed"]
     ELSE /\ videos' = videos \cup {FormatVideo(saves[c].video)}
          /\ saves' = [saves EXCEPT ![c].pc = "saved"]
  /\ UNCHANGED <<searchHistory, metrics, call, result,
                 now, storage, connected, uniqueIndex, retry, apart>>

\* saveVideo: findOneAndUpdate, whose update document names `timestamps`
\* under both $set and $setOnInsert: it is refused and the error thrown again.
FindOneAndUpdate(c) ==
  /\ saves[c].pc = "update"
  /\ saves' = [saves EXCEPT ![c].pc = "failed"]
  /\ UNCHANGED <<videos, searchHistory, metrics, call, result,
                 now, storage, connected, uniqueIndex, retry, apart>>

\* The caller takes the id returned or the error thrown.
SaveReturned(c) ==
  /\ saves[c].pc \in {"saved", "failed", "resolved"}
  /\ saves' = [saves EXCEPT ![c] = Waiting]
  /\ UNCHANGED <<videos, searchHistory, metrics, call, result,
                 now, storage, connected, uniqueIndex, retry, apart>>

(***************************************************************************)
(* callLLMWithRetry(apiCall, maxRetries) of the conversation service, one  *)
(* step per await.                                                         *)
(***************************************************************************)
DefaultMaxRetries == 3

BaseDelay == 1000

DelayCap == 10000

JitterRange == 1000

\* The values Math.random() * 1000 takes in the model: it is below 1000.
Jitters == {0, JitterRange - 1}

NoRetry ==
  [pc |-> "idle", maxRetries |-> 0, retries |-> 0, calls |-> <<>>,
   delays |-> <<>>, lastError |-> 0, returned |-> 0]

\* Math.pow(2, n)
RECURSIVE Pow2(_)
Pow2(n) == IF n = 0 THEN 1 ELSE 2 * Pow2(n - 1)

\* Mutant of BackoffDelay: the delay is not capped.
BackoffDelay_NoCap(retries, jitter) == BaseDelay * Pow2(retries) + jitter

\* Math.min(1000 * Math.pow(2, retries), 10000) + Math.random() * 1000
BackoffDelay(retries, jitter) ==
  (IF BaseDelay * Pow2(retries) < DelayCap
   THEN BaseDelay * Pow2(retries) ELSE DelayCap) + jitter

\* while (retries <= maxRetries)
MayAttempt(retries, maxRetries) == retries <= maxRetries

\* callLLMWithRetry is called; maxRetries is 3 when it is not passed.
CallLLMWithRetry ==
  /\ retry.pc = "idle"
  /\ \E maxRetries \in {<<>>} \cup {<<n>> : n \in 0..MaxRetries} :
       retry' = [NoRetry EXCEPT
                   !.pc = "loop",
                   !.maxRetries = IF maxRetries = <<>> THEN DefaultMaxRetries
                                  ELSE maxRetries[1]]
  /\ UNCHANGED <<videos, searchHistory, metrics, call, result,
                 now, storage, connected, uniqueIndex, saves, apart>>

\* The loop condition: another attempt, or throw lastError.
While ==
  /\ retry.pc = "loop"
  /\ retry' = IF MayAttempt(retry.retries, retry.maxRetries)
              THEN [retry EXCEPT !.pc = "calling"]
              ELSE [retry EXCEPT !.pc = "rejected", !.returned = retry.lastError]
  /\ UNCHANGED <<videos, searchHistory, metrics, call, result,
                 now, storage, connected, uniqueIndex, saves, apart>>

\* await apiCall(): attempt number Len(calls) + 1 resolves, and its value is
\* returned, or rejects: the error is kept, retries is incremented and the
\* delay is awaited if another attempt is allowed.
ApiCall ==
  /\ retry.pc = "calling"
  /\ LET attempt == Len(retry.calls) + 1
     IN \/ retry' = [retry EXCEPT !.pc = "resolved",
                                  !.calls = Append(@, "resolved"),
                                  !.returned = attempt]
        \/ \E jitter \in Jitters :
             retry' = [retry EXCEPT
                         !.calls = Append(@, "rejected"),
                         !.lastError = attempt,
                         !.retries = @ + 1,
                         !.pc = IF retry.retries + 1 <= retry.maxRetries
                                THEN "waiting" ELSE "loop",
                         !.delays = IF retry.retries + 1 <= retry.maxRetries
                                    THEN Append(@, BackoffDelay(retry.retries + 1, jitter))
                                    ELSE @]
  /\ UNCHANGED <<videos, searchHistory, metrics, call, result,
                 now, storage, connected, uniqueIndex, saves, apart>>

\* The timer of the delay fires.
Backoff ==
  /\ retry.pc = "waiting"
  /\ retry' = [retry EXCEPT !.pc = "loop"]
  /\ UNCHANGED <<videos, searchHistory, metrics, call, result,
                 now, storage, connected, uniqueIndex, saves, apart>>

\* The caller takes the value or the error.
RetryReturned ==
  /\ retry.pc \in {"resolved", "rejected"}
  /\ retry' = NoRetry
  /\ UNCHANGED <<videos, searchHistory, metrics, call, result,
                 now, storage, connected, uniqueIndex, saves, apart>>

(***************************************************************************)
(* The session of the API server: POST /api/conversation, POST             *)
(* /api/feedback and DELETE /api/conversation/history.  Names of brawlers, *)
(* game modes and content types are numbers; the userFeedback collection   *)
(* and the like counters of a video are not part of the state.             *)
(***************************************************************************)
HistoryCap == 20

BrawlersCap == 10

GameModesCap == 5

ContentTypesCap == 5

\* req.session.userPreferences as the middleware creates it.
NewSession ==
  [sessionId |-> "s", preferredBrawlers |-> <<>>, preferredGameModes |-> <<>>,
   preferredContentTypes |-> <<>>, conversationHistory |-> <<>>]

\* req.session.userId
UserId == "u"

\* Mutant of Last: the first n entries are kept.
Last_First(seq, n) == IF Len(seq) <= n THEN seq ELSE SubSeq(seq, 1, n)

\* array.slice(-n)
Last(seq, n) ==
  IF Len(seq) <= n THEN seq ELSE SubSeq(seq, Len(seq) - n + 1, Len(seq))

\* array.includes(x)
Includes(seq, x) == \E i \in 1..Len(seq) : seq[i] = x

\* names.forEach(name => { if (!list.includes(name)) { list.push(name);
\*   if (list.length > cap) list.shift(); } })
RECURSIVE PushEach(_, _, _)
PushEach(list, names, cap) ==
  IF names = <<>> THEN list
  ELSE PushEach(IF Includes(list, Head(names)) THEN list
                ELSE IF Len(list) + 1 > cap THEN Tail(Append(list, Head(names)))
                ELSE Append(list, Head(names)),
                Tail(names), cap)

\* names.forEach(name => { if (!list.includes(name)) list.push(name); })
RECURSIVE PushNew(_, _)
PushNew(list, names) ==
  IF names = <<>> THEN list
  ELSE PushNew(IF Includes(list, Head(names)) THEN list
               ELSE Append(list, Head(names)),
               Tail(names))

\* { ...object, field: value }
Spread(object, field, value) ==
  [f \in DOMAIN object \cup {field} |-> IF f = field THEN value ELSE object[f]]

\* The fields saveUserPreferences names under $setOnInsert.
SetOnInsert == {"userId", "sessionId", "createdAt"}

\* saveUserPreferences rejects: MongoDB does not answer, or a field of
\* `preferences`, which $set spreads, is named under $setOnInsert too and the
\* update document is refused as conflicting.
SaveRejects(prefs) == storage = "down" \/ DOMAIN prefs \cap SetOnInsert # {}

\* saveUserPreferences(userId, sessionId, preferences): the userPreferences
\* collection afterwards.  When it rejects nothing is written; otherwise the
\* document of the user or of the session is updated, or one is inserted.
SaveUserPreferences(store, userId, sessionId, prefs) ==
  IF SaveRejects(prefs)
  THEN store
  ELSE LET set == Spread(prefs, "lastUpdated", ToISOString(now))
           found == {i \in 1..Len(store) :
                       store[i].userId = userId \/ store[i].sessionId = sessionId}
           inserted == Spread(Spread(Spread(set, "userId", userId),
                                     "sessionId", sessionId),
                              "createdAt", ToISOString(now))
       IN IF found = {}
          THEN Append(store, inserted)
          ELSE LET i == CHOOSE j \in found : \A k \in found : j <= k
               IN [store EXCEPT ![i] =
                     [f \in DOMAIN store[i] \cup DOMAIN set |->
                        IF f \in DOMAIN set THEN set[f] ELSE store[i][f]]]

\* The searchParams processMessage parses from the reply of the model.
Replies ==
  { [brawlers |-> <<1, 2, 3, 4, 5, 6>>, gameModes |-> <<1, 2, 3>>,
     contentType |-> <<1, 2, 3>>],
    [brawlers |-> <<7, 8, 9, 10, 11>>, gameModes |-> <<4, 5, 6>>,
     contentType |-> <<4, 5, 6>>],
    [brawlers |-> <<1, 1>>, gameModes |-> <<>>, contentType |-> <<1>>] }

\* The message sent: the messages of the session are numbered by the requests
\* answered before them, of which each one recorded a metric row.
NextMessage == metrics + 1

AssistantMessage == "Chat processed successfully."

\* The handler of POST /api/conversation.  Without a message it answers 400;
\* when processMessage rejects, the error middleware answers 500.  Otherwise
\* the two messages are appended to the history, the names of the search
\* parameters are pushed to the preferred lists, the preferences are saved and
\* a metric row is recorded, both without being awaited, and it answers 200.
PostConversation ==
  /\ Idle
  /\ \E message \in {<<>>, <<NextMessage>>} :
     \E response \in {<<>>} \cup {<<r>> : r \in Replies} :
      /\ call' = [op |-> "POST /api/conversation", message |-> message]
      /\ IF message = <<>>
         THEN /\ result' = [status |-> 400]
              /\ UNCHANGED <<session, preferences, metrics>>
         ELSE IF response = <<>>
         THEN /\ result' = [status |-> 500]
              /\ UNCHANGED <<session, preferences, metrics>>
         ELSE /\ metrics < MaxMessages
              /\ session' =
                   [session EXCEPT
                      !.conversationHistory =
                         Last(@ \o <<[role |-> "user", content |-> message[1]],
                                     [role |-> "assistant",
                                      content |-> AssistantMessage]>>,
                              HistoryCap),
                      !.preferredBrawlers =
                         PushEach(@, response[1].brawlers, BrawlersCap),
                      !.preferredGameModes =
                         PushEach(@, response[1].gameModes, GameModesCap),
                      !.preferredContentTypes =
                         PushEach(@, response[1].contentType, ContentTypesCap)]
              /\ preferences' =
                   SaveUserPreferences(preferences, UserId, session.sessionId,
                                       session')
              /\ metrics' = IF storage = "up" THEN metrics + 1 ELSE metrics
              /\ result' = [status |-> 200]
      /\ UNCHANGED <<videos, searchHistory, now, storage, connected,
                     uniqueIndex, saves, retry, clients, client, promptCache,
                     search>>

\* The brawlers of the video getVideoByYoutubeId finds, <<>> when it finds
\* no video or one without brawlers.
LikedBrawlers == {<<>>, <<2, 12>>, <<9, 10, 11>>}

FeedbackTypes == {"like", "dislike"}

\* The handler of POST /api/feedback, which calls handleVideoFeedback with a
\* copy of the preferences: { ...req.session.userPreferences, userId }.  The
\* copy shares its arrays with the session, so the brawlers pushed are pushed
\* to the list of the session; the list cut to its last ten entries is a new
\* array, which only the copy refers to.  An error of the database service is
\* caught and answered with success: false.
PostFeedback ==
  /\ Idle
  /\ \E feedbackType \in FeedbackTypes : \E brawlers \in LikedBrawlers :
      LET copy == Spread(session, "userId", UserId)
          pushed == PushNew(copy.preferredBrawlers, brawlers)
          saved == [copy EXCEPT !.preferredBrawlers = Last(pushed, BrawlersCap)]
          stored == SaveUserPreferences(preferences, copy.userId,
                                        copy.sessionId, saved)
      IN /\ call' = [op |-> "POST /api/feedback", feedbackType |-> feedbackType]
         /\ IF storage = "down"
            THEN /\ result' = [status |-> 200, success |-> FALSE]
                 /\ UNCHANGED <<session, preferences>>
            ELSE IF brawlers # <<>> /\ feedbackType = "like"
            THEN /\ session' = [session EXCEPT !.preferredBrawlers = pushed]
                 /\ preferences' = stored
                 /\ result' = [status |-> 200,
                               success |-> ~SaveRejects(saved)]
            ELSE /\ result' = [status |-> 200, success |-> TRUE]
                 /\ UNCHANGED <<session, preferences>>
         /\ UNCHANGED <<videos, searchHistory, metrics, now, storage, connected,
                        uniqueIndex, saves, retry, clients, client, promptCache,
                        search>>

\* The handler of DELETE /api/conversation/history.
DeleteHistory ==
  /\ Idle
  /\ call' = [op |-> "DELETE /api/conversation/history"]
  /\ session' = [session EXCEPT !.conversationHistory = <<>>]
  /\ result' = [status |-> 200]
  /\ UNCHANGED <<videos, searchHistory, metrics, now, storage, connected,
                 uniqueIndex, saves, retry, preferences, clients, client,
                 promptCache, search>>

(***************************************************************************)
(* generateSearchParams of the conversation service and its promptCache.   *)
(* Strings are strings: SubSeq, Len and \o act on their characters.        *)
(***************************************************************************)
CharAt(str, i) == SubSeq(str, i, i)

UpperCase == "ABCDEFGHIJKLMNOPQRSTUVWXYZ"

LowerCase == "abcdefghijklmnopqrstuvwxyz"

\* The printable ASCII characters from the space (code 32) to the underscore
\* (95), and from a (97) on.  The backquote (96) cannot be written in a
\* string: the apostrophe stands for it in the fences of a reply.
Ascii ==
  " !\"#$%&'()*+,-./0123456789:;<=>?@ABCDEFGHIJKLMNOPQRSTUVWXYZ[\\]^_"

AsciiLetters == "abcdefghijklmnopqrstuvwxyz{|}~"

\* Buffer.from(str): the byte of one character; the newline has code 10.
Byte(ch) ==
  IF ch = "\n" THEN 10
  ELSE IF \E i \in 1..Len(Ascii) : CharAt(Ascii, i) = ch
  THEN 31 + (CHOOSE i \in 1..Len(Ascii) : CharAt(Ascii, i) = ch)
  ELSE 96 + (CHOOSE i \in 1..Len(AsciiLetters) : CharAt(AsciiLetters, i) = ch)

Base64Alphabet ==
  "ABCDEFGHIJKLMNOPQRSTUVWXYZabcdefghijklmnopqrstuvwxyz0123456789+/"

Sextet(n) == CharAt(Base64Alphabet, n + 1)

\* Buffer.from(str).toString('base64'): three bytes give four characters, the
\* last group is padded with "=".
RECURSIVE Base64(_)
Base64(str) ==
  IF Len(str) = 0 THEN ""
  ELSE IF Len(str) = 1
  THEN LET b == Byte(CharAt(str, 1))
       IN Sextet(b \div 4) \o Sextet((b % 4) * 16) \o "=="
  ELSE IF Len(str) = 2
  THEN LET n == Byte(CharAt(str, 1)) * 256 + Byte(CharAt(str, 2))
       IN Sextet(n \div 1024) \o Sextet((n \div 16) % 64)
            \o Sextet((n % 16) * 4) \o "="
  ELSE LET n == Byte(CharAt(str, 1)) * 65536 + Byte(CharAt(str, 2)) * 256
                  + Byte(CharAt(str, 3))
       IN Sextet(n \div 262144) \o Sextet((n \div 4096) % 64)
            \o Sextet((n \div 64) % 64) \o Sextet(n % 64)
            \o Base64(SubSeq(str, 4, Len(str)))

\* str.toLowerCase()
RECURSIVE ToLowerCase(_)
ToLowerCase(str) ==
  IF Len(str) = 0 THEN ""
  ELSE LET ch == CharAt(str, 1)
           upper == {i \in 1..Len(UpperCase) : CharAt(UpperCase, i) = ch}
       IN (IF upper = {} THEN ch
           ELSE CharAt(LowerCase, CHOOSE i \in upper : TRUE))
            \o ToLowerCase(SubSeq(str, 2, Len(str)))

\* Mutant of StringIncludes: every string is found.
StringIncludes_Always(str, part) == TRUE

\* str.includes(part)
StringIncludes(str, part) ==
  \E i \in 1..(Len(str) - Len(part) + 1) :
    SubSeq(str, i, i + Len(part) - 1) = part

\* array.join('')
RECURSIVE Join(_)
Join(strs) == IF strs = <<>> THEN "" ELSE Head(strs) \o Join(Tail(strs))

RecentMessages == 3

\* conversationHistory.slice(-3).map(m => m.content)
RecentContents(history) ==
  LET recent == Last(history, RecentMessages)
  IN [i \in 1..Len(recent) |-> recent[i].content]

\* cacheKey
CacheKey(query, history) ==
  "search_params_" \o Base64(query \o Join(RecentContents(history)))

\* What require('./youtube-service-improved') gives for BRAWLERS and
\* GAME_MODES, <<>> for undefined: the module exports neither name, and a
\* module that exports the two lists.
YoutubeExports ==
  { [BRAWLERS |-> <<>>, GAME_MODES |-> <<>>],
    [BRAWLERS |-> <<<<"Mortis", "Colt", "Shelly">>>>,
     GAME_MODES |-> <<<<"Gem Grab", "Heist">>>>] }

\* names.forEach(name => { if (lowerQuery.includes(name.toLowerCase()))
\*   list.push(name); })
RECURSIVE Mentioned(_, _)
Mentioned(names, lowerQuery) ==
  IF names = <<>> THEN <<>>
  ELSE (IF StringIncludes(lowerQuery, ToLowerCase(Head(names)))
        THEN <<Head(names)>> ELSE <<>>)
         \o Mentioned(Tail(names), lowerQuery)

contentTypeKeywords ==
  << [type |-> "tutorial", keywords |-> {"tutorial", "how to", "guide", "learn"}],
     [type |-> "tips", keywords |-> {"tips", "tricks", "advice"}],
     [type |-> "gameplay", keywords |-> {"gameplay", "playing", "matches"}],
     [type |-> "pro", keywords |-> {"pro", "professional", "competitive"}],
     [type |-> "entertainment",
      keywords |-> {"funny", "fun", "entertaining", "entertainment"}],
     [type |-> "highlights", keywords |-> {"highlights", "moments", "best"}] >>

\* Object.entries(contentTypeKeywords).forEach(...)
RECURSIVE ContentTypes(_, _)
ContentTypes(entries, lowerQuery) ==
  IF entries = <<>> THEN <<>>
  ELSE (IF \E keyword \in Head(entries).keywords :
             StringIncludes(lowerQuery, keyword)
        THEN <<Head(entries).type>> ELSE <<>>)
         \o ContentTypes(Tail(entries), lowerQuery)

\* extractBasicEntities(query, params): <<params>> as it leaves them, or <<>>
\* when BRAWLERS or GAME_MODES is undefined and forEach throws.
ExtractBasicEntities(query, params, exports) ==
  IF exports.BRAWLERS = <<>> \/ exports.GAME_MODES = <<>> THEN <<>>
  ELSE
    LET lowerQuery == ToLowerCase(query)
        brawlers == Mentioned(exports.BRAWLERS[1], lowerQuery)
        gameModes == Mentioned(exports.GAME_MODES[1], lowerQuery)
        contentType == ContentTypes(contentTypeKeywords, lowerQuery)
        skillLevel ==
          IF \E w \in {"beginner", "new", "start"} : StringIncludes(lowerQuery, w)
          THEN "beginner"
          ELSE IF \E w \in {"advanced", "pro", "expert"} :
                    StringIncludes(lowerQuery, w)
          THEN "advanced"
          ELSE IF StringIncludes(lowerQuery, "intermediate")
          THEN "intermediate" ELSE params.skillLevel
        intent ==
          IF Includes(contentType, "tutorial") \/ Includes(contentType, "tips")
          THEN "educational"
          ELSE IF Includes(contentType, "entertainment")
                    \/ Includes(contentType, "highlights")
          THEN "entertainment"
          ELSE IF Len(brawlers) > 0 \/ Len(gameModes) > 0
          THEN "specific" ELSE params.intent
    IN << [params EXCEPT !.brawlers = brawlers, !.gameModes = gameModes,
                         !.contentType = contentType,
                         !.skillLevel = skillLevel, !.intent = intent] >>

\* fallbackParams
FallbackParams(query) ==
  [query |-> query, brawlers |-> <<>>, gameModes |-> <<>>,
   contentType |-> <<>>, skillLevel |-> "", sortBy |-> "relevance",
   intent |-> "general", rephrased |-> query]

\* The object the outer catch block returns.
CatchParams(query) ==
  [query |-> query, brawlers |-> <<>>, gameModes |-> <<>>,
   contentType |-> <<>>, skillLevel |-> "", sortBy |-> "relevance"]

FenceOpen == "'''json\n"

FenceClose == "\n'''"

\* responseText.match(/'''json\n([\s\S]*?)\n'''/): <<>> when there is no match,
\* otherwise <<the text captured>>, the shortest one after the first opening
\* fence that is followed by a closing one.
JsonMatch(text) ==
  LET opens == {i \in 1..(Len(text) - Len(FenceOpen) + 1) :
                  SubSeq(text, i, i + Len(FenceOpen) - 1) = FenceOpen}
      closes(i) == {j \in (i + Len(FenceOpen))..(Len(text) - Len(FenceClose) + 1) :
                      SubSeq(text, j, j + Len(FenceClose) - 1) = FenceClose}
      matching == {i \in opens : closes(i) # {}}
  IN IF matching = {} THEN <<>>
     ELSE LET i == CHOOSE a \in matching : \A b \in matching : a <= b
              j == CHOOSE a \in closes(i) : \A b \in closes(i) : a <= b
          IN <<SubSeq(text, i + Len(FenceOpen), j - 1)>>

\* The value null.
Null == [null |-> TRUE]

\* JSON.parse(text) on the documents of the model: <<the value>>, or <<>> for
\* a SyntaxError.
JsonParse(text) ==
  IF text = "null" THEN <<Null>>
  ELSE IF text = "{\"query\":\"mortis\",\"brawlers\":[\"Mortis\"],\"sortBy\":\"popular\"}"
  THEN << [query |-> "mortis", brawlers |-> <<"Mortis">>, sortBy |-> "popular"] >>
  ELSE <<>>

\* if (value), for the values of the model: an object or null.
Truthy(value) == value # Null

\* What callLLMWithRetry gives: <<>> when it throws the last error, otherwise
\* <<responseText>>.
LlmOutcomes ==
  { <<>>,
    <<"Try searching for mortis">>,
    <<"'''json\n{brawlers}\n'''">>,
    <<"'''json\n\n'''">>,
    <<"'''json\nnull\n'''">>,
    <<"Sure!\n'''json\n{\"query\":\"mortis\",\"brawlers\":[\"Mortis\"],\"sortBy\":\"popular\"}\n'''\nEnjoy">> }

ParamQueries == {"a", "ab", "mortis tips", "Best COLT heist"}

Message(content) == [role |-> "user", content |-> content]

\* The conversation histories passed: none, one message, and two of four
\* messages that differ in the first one only.
Histories ==
  { <<>>,
    <<Message("b")>>,
    <<Message("w"), Message("x"), Message("y"), Message("b")>>,
    <<Message("v"), Message("x"), Message("y"), Message("b")>> }

\* promptCache.get(cacheKey)
CacheGet(cache, key) ==
  IF \E e \in cache : e.key = key
  THEN <<(CHOOSE e \in cache : e.key = key).params>>
  ELSE <<>>

\* promptCache.set(cacheKey, searchParams); the entry also records the query
\* and the recent messages of the call that stored it.
CacheSet(cache, key, params, query, recent) ==
  {e \in cache : e.key # key}
    \cup {[key |-> key, params |-> params,
           storedBy |-> [query |-> query, recent |-> recent]]}

\* The cache key, the parsed reply and the fallback parameters of every input
\* of the model, computed once.  A reply gives <<>> when it has no fenced
\* block, an empty one, or one that is not valid JSON.
CacheKeys ==
  [query \in ParamQueries |-> [history \in Histories |-> CacheKey(query, history)]]

ParsedReplies ==
  [outcome \in LlmOutcomes \ {<<>>} |->
     LET jsonMatch == JsonMatch(outcome[1])
     IN IF jsonMatch # <<>> /\ jsonMatch[1] # ""
        THEN JsonParse(jsonMatch[1]) ELSE <<>>]

Fallbacks ==
  [query \in ParamQueries |->
     [exports \in YoutubeExports |->
        LET extracted ==
              ExtractBasicEntities(query, FallbackParams(query), exports)
        IN IF extracted = <<>> THEN CatchParams(query) ELSE extracted[1]]]

\* generateSearchParams(query, conversationHistory): what it resolves to.
\* An entry of the cache that is truthy is returned.  Otherwise the model is
\* called: the JSON of its reply is parsed, cached and returned; a reply
\* without a fenced block or with invalid JSON gives the fallback parameters
\* with the entities extracted; an error thrown on the way gives the object of
\* the catch block.
GenerateSearchParams ==
  /\ Idle
  /\ \E query \in ParamQueries : \E history \in Histories :
     \E exports \in YoutubeExports : \E outcome \in LlmOutcomes :
      LET key == CacheKeys[query][history]
          cachedParams == CacheGet(promptCache, key)
          parsed == IF outcome = <<>> THEN <<>> ELSE ParsedReplies[outcome]
      IN /\ call' = [op |-> "generateSearchParams", query |-> query,
                     recent |-> RecentContents(history), outcome |-> outcome]
         /\ IF cachedParams # <<>> /\ Truthy(cachedParams[1])
            THEN /\ result' = [status |-> "ok", params |-> cachedParams[1],
                               hit |-> TRUE, llm |-> 0]
                 /\ UNCHANGED promptCache
            ELSE IF outcome = <<>>
            THEN /\ result' = [status |-> "ok", params |-> CatchParams(query),
                               hit |-> FALSE, llm |-> 1]
                 /\ UNCHANGED promptCache
            ELSE IF parsed # <<>>
            THEN /\ Cardinality({e.key : e \in promptCache} \cup {key}) <= MaxCached
                 /\ promptCache' =
                      CacheSet(promptCache, key, parsed[1], query,
                               RecentContents(history))
                 /\ result' = [status |-> "ok", params |-> parsed[1],
                               hit |-> FALSE, llm |-> 1]
            ELSE /\ result' = [status |-> "ok",
                               params |-> Fallbacks[query][exports],
                               hit |-> FALSE, llm |-> 1]
                 /\ UNCHANGED promptCache
         /\ UNCHANGED <<videos, searchHistory, metrics, now, storage, connected,
                        uniqueIndex, saves, retry, session, preferences,
                        clients, client, search>>

\* An entry is older than the time to live of the cache and is deleted.
Expire ==
  /\ Idle
  /\ \E e \in promptCache : promptCache' = promptCache \ {e}
  /\ UNCHANGED <<videos, searchHistory, metrics, call, result, now, storage,
                 connected, uniqueIndex, saves, retry, session, preferences,
                 clients, client, search>>

\* No searchVideos call is in progress.
NoSearch == [pc |-> "idle"]

(***************************************************************************)
(* searchVideos called while videos are saved.  Its two reads of the       *)
(* collection, countDocuments and then toArray, are separate requests to   *)
(* MongoDB, and a saveVideo of another caller can be served between them.  *)
(* The record `search` holds the position and the locals of the call; its  *)
(* fields `counted` and `read` remember the collection each read saw.      *)
(***************************************************************************)
\* The parameters of the calls made while videos are saved.
ConcurrentParams ==
  Vary(Vary(Vary({NoParams}, "limit", {Num(1), Num(MaxLimit)}),
            "sortBy", {"popular"}),
       "brawlers", {<<"Mortis">>})

\* searchVideos(params): ensureConnection returns at once, the module being
\* connected; the query, the sort order and the cursor are built.
SearchCalled ==
  /\ search = NoSearch
  /\ connected
  /\ \E params \in ConcurrentParams :
       search' = [pc |-> "countDocuments", params |-> params]
  /\ UNCHANGED <<videos, searchHistory, metrics, call, result, now, storage,
                 connected, uniqueIndex, saves, retry, session, preferences,
                 clients, client, promptCache>>

\* const total = await countDocuments(dbQuery); a rejection is logged and
\* thrown again.
CountDocuments ==
  /\ search.pc = "countDocuments"
  /\ search' =
       IF storage = "down"
       THEN [pc |-> "returned", params |-> search.params,
             counted |-> videos, read |-> videos,
             result |-> StorageFailure(search.params)]
       ELSE [pc |-> "toArray", params |-> search.params,
             counted |-> videos,
             total |-> Cardinality({v \in videos :
                         Matches(v, BuildQuery(Destructure(search.params)))})]
  /\ UNCHANGED <<videos, searchHistory, metrics, call, result, now, storage,
                 connected, uniqueIndex, saves, retry, session, preferences,
                 clients, client, promptCache>>

\* cursor.skip(skip).limit(limit); const videos = await cursor.toArray(); the
\* object returned carries the total counted before.
ToArray ==
  /\ search.pc = "toArray"
  /\ \E r \in Answered(SearchVideosResults(videos, search.params),
                       StorageFailure(search.params)) :
       search' =
         [pc |-> "returned", params |-> search.params,
          counted |-> search.counted, read |-> videos,
          result |->
            IF r.status = "ok"
            THEN [r EXCEPT !.pagination =
                    Pagination(search.total, r.pagination.page,
                               r.pagination.limit)]
            ELSE r]
  /\ UNCHANGED <<videos, searchHistory, metrics, call, result, now, storage,
                 connected, uniqueIndex, saves, retry, session, preferences,
                 clients, client, promptCache>>

\* The caller of searchVideos takes the result.
SearchTaken ==
  /\ search.pc = "returned"
  /\ search' = NoSearch
  /\ UNCHANGED <<videos, searchHistory, metrics, call, result, now, storage,
                 connected, uniqueIndex, saves, retry, session, preferences,
                 clients, client, promptCache>>

(***************************************************************************)
(* The specifications.                                                     *)
(***************************************************************************)
Init ==
  /\ videos = {}
  /\ searchHistory = <<>>
  /\ metrics = 0
  /\ call = NoCall
  /\ result = NoResult
  /\ now = FirstDay
  /\ storage = "up"
  /\ connected = TRUE
  /\ uniqueIndex = TRUE
  /\ saves = [c \in Callers |-> Waiting]
  /\ retry = NoRetry
  /\ session = NewSession
  /\ preferences = <<>>
  /\ clients = <<>>
  /\ client = 0
  /\ promptCache = {}
  /\ search = NoSearch

\* The database service called directly.
Next ==
  \/ SaveVideo
  \/ SearchVideos
  \/ GetVideoRecommendations
  \/ GetVideoRecommendationsAgain
  \/ GetTrendingBrawlers
  \/ GetPopularSearchQueries
  \/ Return

Spec == Init /\ [][Next]_vars

\* The API server: the collector saves videos, clients search.
ApiNext == SaveVideo \/ ApiSearch \/ Return

ApiSpec == Init /\ [][ApiNext]_vars

\* The search history: queries are saved as the days pass and the popular
\* ones are asked for.
HistoryNext == SaveSearchQuery \/ Tick \/ GetPopularSearchQueries \/ Return

HistorySpec == Init /\ [][HistoryNext]_vars

\* The readers of the database service and of the conversation service while
\* MongoDB may stop answering.
OutageNext ==
  \/ SaveVideo
  \/ Outage
  \/ Restore
  \/ SearchVideos
  \/ GetVideoRecommendations
  \/ GetTrendingBrawlers
  \/ GetPopularSearchQueries
  \/ GetPersonalizedRecommendations
  \/ Return

OutageSpec == Init /\ [][OutageNext]_vars

\* The module just loaded, an empty database without its indexes, and callers
\* of saveVideo that run concurrently.
Loaded ==
  /\ videos = {}
  /\ searchHistory = <<>>
  /\ metrics = 0
  /\ call = NoCall
  /\ result = NoResult
  /\ now = FirstDay
  /\ storage = "up"
  /\ connected = FALSE
  /\ uniqueIndex = FALSE
  /\ saves = [c \in Callers |-> Waiting]
  /\ retry = NoRetry
  /\ session = NewSession
  /\ preferences = <<>>
  /\ clients = <<>>
  /\ client = 0
  /\ promptCache = {}
  /\ search = NoSearch

SaveNext ==
  \E c \in Callers :
    \/ SaveCalled(c)
    \/ Connect(c)
    \/ Wait(c)
    \/ InitializeCollections(c)
    \/ CreateIndexes(c)
    \/ FindOne(c)
    \/ InsertOne(c)
    \/ FindOneAndUpdate(c)
    \/ SaveReturned(c)

SaveSpec == Loaded /\ [][SaveNext]_vars

\* One caller of callLLMWithRetry.  Every promise awaited settles: the API
\* call resolves or rejects and the timer of the delay fires.
\* The module just loaded and one caller of connectToDatabase, while MongoDB
\* may stop answering; the connection is closed between two calls.
ConnectNext ==
  \/ ConnectToDatabase("a")
  \/ Connect("a")
  \/ Wait("a")
  \/ InitializeCollections("a")
  \/ CreateIndexes("a")
  \/ SaveReturned("a")
  \/ CloseDatabaseConnection
  \/ Outage
  \/ Restore

ConnectSpec == Loaded /\ [][ConnectNext]_vars

\* The search route and the two analytics writers while MongoDB may stop
\* answering.
AnalyticsNext ==
  \/ SaveVideo
  \/ ApiSearchQuery
  \/ SaveSearchQuery
  \/ RecordMetric
  \/ Outage
  \/ Restore
  \/ Return

AnalyticsSpec == Init /\ [][AnalyticsNext]_vars

\* The callers of generateSearchParams, one after the other.
ParamsNext == GenerateSearchParams \/ Expire \/ Return

ParamsSpec == Init /\ [][ParamsNext]_vars

\* One caller searching while another saves videos.
ConcurrentNext ==
  \/ SearchCalled
  \/ CountDocuments
  \/ ToArray
  \/ SearchTaken
  \/ SaveVideo
  \/ Outage
  \/ Restore
  \/ Return

ConcurrentSpec == Init /\ [][ConcurrentNext]_vars

\* One session of the API server.
SessionNext == PostConversation \/ PostFeedback \/ DeleteHistory \/ Return

SessionSpec == Init /\ [][SessionNext]_vars

LlmNext == CallLLMWithRetry \/ While \/ ApiCall \/ Backoff \/ RetryReturned

LlmSpec == Init /\ [][LlmNext]_vars /\ WF_vars(While \/ ApiCall \/ Backoff)

(***************************************************************************)
(* Properties.  The definitions below state what is checked of the model;  *)
(* they describe the expected behaviour in their own terms.                *)
(***************************************************************************)
\* A search that returned.
SearchReturned ==
  call.op \in {"searchVideos", "GET /api/search"} /\ result.status = "ok"

\* The arguments of the search, defaults applied.
Arg == Destructure(call.params)

\* The records returned, as a set, and their youtubeIds in order.
Returned == {result.videos[i] : i \in 1..Len(result.videos)}

ReturnedIds == [i \in 1..Len(result.videos) |-> result.videos[i].youtubeId]

\* The whole match list fits in the page returned.
WholeListReturned ==
  /\ Arg.page = Num(1)
  /\ IsNum(Arg.limit) /\ Arg.limit.v >= Cardinality(videos)

ArrayFields == {"brawlers", "gameModes", "contentType"}

\* Record v shares an element with the filter array of field f, or the filter
\* array is empty.
SharesOrEmpty(v, f) == Arg[f] = <<>> \/ v[f] \cap Elems(Arg[f]) # {}

SatisfiesArrays(v) == \A f \in ArrayFields : SharesOrEmpty(v, f)

\* No free text, skill level, channel, view, duration or date filter.
OnlyArrayFilters ==
  /\ Trim(Arg.query) = <<>>
  /\ Arg.skillLevel = "" /\ Arg.channelId = ""
  /\ ~JsGt0(Arg.minViews) /\ ~JsGt0(Arg.maxDuration)
  /\ Arg.dateFrom = <<>> /\ Arg.dateTo = <<>>

\* C1: a non-empty brawlers / gameModes / contentType filter array constrains
\* the field to share an element with it and an empty one puts no constraint:
\* every record returned satisfies the three filters, the predicate holds a
\* constraint on exactly the non-empty ones, and when nothing else is filtered
\* the records counted and returned are exactly those that satisfy them.
C1_ArrayFiltersIntersect ==
  SearchReturned =>
    /\ \A v \in Returned : SatisfiesArrays(v)
    /\ \A f \in ArrayFields : (f \in result.dbQuery.keys) <=> (Arg[f] # <<>>)
    /\ OnlyArrayFilters =>
         /\ result.pagination.total =
              Cardinality({v \in videos : SatisfiesArrays(v)})
         /\ WholeListReturned => Returned = {v \in videos : SatisfiesArrays(v)}

\* The Shelly record is returned for the filter [Shelly, Colt] while a stored
\* Mortis record is not.
C1_Witness ==
  /\ call.op = "searchVideos" /\ result.status = "ok"
  /\ "brawlers" \notin call.params.undef
  /\ call.params.brawlers = <<"Shelly", "Colt">>
  /\ \E v \in Returned : v.brawlers = {"Shelly"}
  /\ \E v \in videos \ Returned : v.brawlers = {"Mortis"}

\* No filter at all: the five named fields empty, the others at their defaults.
NoFilter ==
  /\ OnlyArrayFilters
  /\ \A f \in ArrayFields : Arg[f] = <<>>

\* C2: with free text, brawlers, gameModes, contentType and skillLevel empty
\* and the other filters at their defaults the predicate holds no constraint,
\* every stored record matches and pagination.total is the number of stored
\* records.
C2_EmptyFilterMatchesAll ==
  (SearchReturned /\ NoFilter) =>
    /\ result.dbQuery.keys = {}
    /\ result.pagination.total = Cardinality(videos)
    /\ \A v \in videos : Matches(v, result.dbQuery)
    /\ WholeListReturned => Returned = videos

C2_Witness ==
  /\ call.op = "searchVideos" /\ result.status = "ok"
  /\ NoFilter
  /\ "brawlers" \notin call.params.undef
  /\ Cardinality(videos) = 3
  /\ result.pagination.total = 3
  /\ Len(result.videos) = 3

KnownSortBys == {"relevance", "recent", "popular", "trending"}

\* The records returned are in non-increasing order of an integer field.
DescendingBy(f) ==
  \A i, j \in 1..Len(result.videos) :
    i < j => result.videos[i][f] >= result.videos[j][f]

MayPrecede(a, b) ==
  CASE Arg.sortBy = "relevance" /\ Trim(Arg.query) # <<>> ->
         TextScore(a, Arg.query) >= TextScore(b, Arg.query)
    [] Arg.sortBy = "relevance" /\ Trim(Arg.query) = <<>> ->
         a.popularity >= b.popularity
    [] Arg.sortBy = "recent" -> ~StrLess(a.publishedAt, b.publishedAt)
    [] Arg.sortBy = "popular" -> a.viewCount >= b.viewCount
    [] Arg.sortBy = "trending" ->
         \/ a.recency > b.recency
         \/ a.recency = b.recency /\ a.popularity >= b.popularity

\* The records matching the predicate of the call.
Matching == {v \in videos : Matches(v, result.dbQuery)}

\* C4: for the four sort orders the records returned come in the order chosen
\* by sortBy and by whether there is free text (text score, popularity,
\* publish timestamp, view count, recency then popularity, all descending);
\* they are matching records, each once, and all of them when the page holds
\* the whole list.
C4_SortOrder ==
  (SearchReturned /\ Arg.sortBy \in KnownSortBys) =>
    /\ \A i, j \in 1..Len(result.videos) :
         i < j => /\ MayPrecede(result.videos[i], result.videos[j])
                  /\ result.videos[i] # result.videos[j]
    /\ Returned \subseteq Matching
    /\ WholeListReturned => Returned = Matching

\* The example of the spec: brawlers = [Mortis], sortBy = popular over the
\* records of 500000 [Mortis], 200000 [Mortis, Colt] and 900000 [Shelly] views.
C4_Witness ==
  /\ call.op = "searchVideos" /\ result.status = "ok"
  /\ Arg.sortBy = "popular" /\ Arg.brawlers = <<"Mortis">>
  /\ {v.youtubeId : v \in videos} = {"v1", "v2", "v3"}
  /\ ReturnedIds = <<"v1", "v2">>
  /\ result.videos[1].viewCount = 500000 /\ result.videos[2].viewCount = 200000

\* The number of matching records that must come before v, and the number that
\* may come before it or in its place.
MustPrecede(v) == Cardinality({m \in Matching : ~MayPrecede(v, m)})

MayPrecedeOrTie(v) == Cardinality({m \in Matching : MayPrecede(m, v)})

\* C5: for page >= 1 and pageSize >= 1, pagination.pages is the least number of
\* pages that holds the matches (0 for no match), the slice holds the matches
\* at offsets [(page-1)*pageSize, (page-1)*pageSize + pageSize) of the sorted
\* list, and it is empty, without error, when the offset is past the end.
C5_Pagination ==
  (/\ call.op = "searchVideos"
   /\ IsNum(Arg.page) /\ Arg.page.v >= 1
   /\ IsNum(Arg.limit) /\ Arg.limit.v >= 1) =>
    LET total  == result.pagination.total
        size   == Arg.limit.v
        offset == (Arg.page.v - 1) * size
        pages  == result.pagination.pages
        rest   == IF total > offset THEN total - offset ELSE 0
    IN /\ result.status = "ok"
       /\ total = Cardinality(Matching)
       /\ IsNum(pages)
       /\ pages.v * size >= total /\ (pages.v - 1) * size < total
       /\ total = 0 => pages.v = 0
       /\ Len(result.videos) = (IF rest < size THEN rest ELSE size)
       /\ offset >= total => result.videos = <<>>
       /\ Arg.sortBy \in KnownSortBys =>
            \A i \in 1..Len(result.videos) :
              /\ MustPrecede(result.videos[i]) <= offset + i - 1
              /\ MayPrecedeOrTie(result.videos[i]) >= offset + i
       /\ CeilDiv(25, Num(10)) = Num(3)
       /\ CeilDiv(0, Num(10)) = Num(0)

\* A page past the end: 3 matches, pageSize 2, page 3 is empty and pages is 2.
C5_Witness ==
  /\ call.op = "searchVideos" /\ result.status = "ok"
  /\ result.pagination.total = 3
  /\ Arg.limit = Num(2) /\ Arg.page = Num(3)
  /\ result.videos = <<>>
  /\ result.pagination.pages = Num(2)

\* A second page that is not empty.
C5_WitnessSecondPage ==
  /\ call.op = "searchVideos" /\ result.status = "ok"
  /\ result.pagination.total = 3
  /\ Arg.limit = Num(2) /\ Arg.page = Num(2)
  /\ Len(result.videos) = 1

\* A request to GET /api/search that was handled.
ApiCalled == call.op = "GET /api/search"

\* C6 as stated: a page or limit that is <= 0 or not a number is corrected, so
\* that the request raises no error and the page and pageSize used and reported
\* are >= 1.
C6_PageAndLimitAtLeastOne ==
  ApiCalled =>
    /\ result.status = "ok"
    /\ IsNum(call.params.page) /\ call.params.page.v >= 1
    /\ IsNum(call.params.limit) /\ call.params.limit.v >= 1
    /\ result.pagination.page = call.params.page
    /\ result.pagination.limit = call.params.limit

\* C7 as stated: the page size used and reported never exceeds a fixed
\* maximum (50), and no response holds more records than that.
C7_PageSizeCapped ==
  (ApiCalled /\ result.status = "ok") =>
    /\ IsNum(result.pagination.limit) /\ result.pagination.limit.v <= 50
    /\ Len(result.videos) <= 50

\* Record v satisfies the view, duration and date constraints of the call: a
\* bound that is not a number, a maxDuration of 0 and a date bound that is not
\* supplied put no constraint.
SatisfiesNumbers(v) ==
  /\ IsNum(Arg.minViews) => v.viewCount >= Arg.minViews.v
  /\ (IsNum(Arg.maxDuration) /\ Arg.maxDuration.v > 0) =>
       v.duration <= Arg.maxDuration.v
  /\ Arg.dateFrom # <<>> => StrLeq(Arg.dateFrom, v.publishedAt)
  /\ Arg.dateTo # <<>> => StrLeq(v.publishedAt, Arg.dateTo)

\* No free text, classification, skill level or channel filter.
OnlyNumberFilters ==
  /\ Trim(Arg.query) = <<>>
  /\ \A f \in ArrayFields : Arg[f] = <<>>
  /\ Arg.skillLevel = "" /\ Arg.channelId = ""

\* The query-string value of parameter f does not parse as a number.
Unparsable(f) ==
  /\ f \notin call.query.undef
  /\ call.query[f] # <<>>
  /\ ParseIntStr(call.query[f]) = NaN

\* C8: the records returned satisfy viewCount >= minViews, duration <=
\* maxDuration when maxDuration > 0, and publishedAt within [dateFrom, dateTo],
\* each date bound applied only if supplied; when nothing else is filtered the
\* records counted and returned are exactly those; a minViews or maxDuration
\* that does not parse as a number puts no constraint and raises no error.
C8_NumericAndDateFilters ==
  ApiCalled =>
    /\ result.status = "ok" =>
         /\ \A v \in Returned : SatisfiesNumbers(v)
         /\ OnlyNumberFilters =>
              /\ result.pagination.total =
                   Cardinality({v \in videos : SatisfiesNumbers(v)})
              /\ WholeListReturned =>
                   Returned = {v \in videos : SatisfiesNumbers(v)}
    /\ Unparsable("minViews") => "viewCount" \notin result.dbQuery.keys
    /\ Unparsable("maxDuration") => "duration" \notin result.dbQuery.keys
    /\ {"page", "limit"} \subseteq call.query.undef => result.status = "ok"

\* minViews = "ab" constrains nothing while maxDuration = "300" and
\* dateTo each leave out a stored record.
C8_Witness ==
  /\ ApiCalled /\ result.status = "ok"
  /\ Unparsable("minViews")
  /\ Arg.maxDuration = Num(300)
  /\ Arg.dateTo = <<0, 2>> /\ "dateFrom" \in call.query.undef
  /\ Cardinality(videos) = 3
  /\ Cardinality(Returned) = 1
  /\ \E v \in videos : v.duration > 300 /\ StrLeq(v.publishedAt, <<0, 2>>)
  /\ \E v \in videos : v.duration <= 300 /\ StrLess(<<0, 2>>, v.publishedAt)

\* A recommendation call that returned.
Recommended == call.op = "getVideoRecommendations" /\ result.status = "ok"

\* The source video of the call.
Source == CHOOSE v \in videos : v.youtubeId = call.youtubeId

\* The preferred brawlers supplied with the call, if any.
Preferred ==
  IF call.userPreferences.given
  THEN Elems(call.userPreferences.preferredBrawlers)
  ELSE {}

Common(a, b) == Cardinality(a \cap b)

\* The similarity score the claim gives candidate c.
ExpectedSimilarity(c) ==
    3 * Common(c.brawlers, Source.brawlers)
  + 2 * Common(c.gameModes, Source.gameModes)
  + Common(c.contentType, Source.contentType)
  + (IF c.creatorId = Source.creatorId THEN 4 ELSE 0)
  + Common(c.brawlers, Preferred)

\* C9: similarityScore is 3 per common brawler, 2 per common game mode, 1 per
\* common content type, 4 for the same creator, plus 1 per preferred brawler of
\* the candidate when preferred brawlers are supplied; a source without
\* classification contributes nothing for those terms.
C9_SimilarityScore ==
  Recommended =>
    \A r \in Returned :
      /\ r.similarityScore = ExpectedSimilarity(r)
      /\ (Source.brawlers = {} /\ Source.gameModes = {} /\ Source.contentType = {}) =>
           r.similarityScore =
             (IF r.creatorId = Source.creatorId THEN 4 ELSE 0)
             + Common(r.brawlers, Preferred)

\* A candidate identical to the source (Mortis, Brawl Ball, tutorial, same
\* creator) scores 10.
C9_Witness ==
  /\ Recommended
  /\ Preferred = {}
  /\ Source.brawlers = {"Mortis"} /\ Source.gameModes = {"Brawl Ball"}
  /\ Source.contentType = {"tutorial"}
  /\ \E r \in Returned :
       /\ r.brawlers = Source.brawlers /\ r.gameModes = Source.gameModes
       /\ r.contentType = Source.contentType /\ r.creatorId = Source.creatorId
       /\ r.similarityScore = 10

\* A preference boost on a source without classification.
C9_WitnessBoost ==
  /\ Recommended
  /\ Source.brawlers = {} /\ Preferred = {"Colt", "Shelly"}
  /\ \E r \in Returned : r.similarityScore = 1

\* The limit of the call, 6 when none is passed.
RequestedLimit == IF call.limit = <<>> THEN 6 ELSE call.limit[1].v

\* The stored candidates: every video but the source.
Candidates == {v \in videos : v.youtubeId # call.youtubeId}

\* The final score the claim gives candidate c, in tenths.
ExpectedFinal(c) == 10 * ExpectedSimilarity(c) + 5 * c.popularity + 3 * c.recency

\* Candidate a ranks strictly above candidate b.
RanksAbove(a, b) ==
  \/ ExpectedFinal(a) > ExpectedFinal(b)
  \/ ExpectedFinal(a) = ExpectedFinal(b) /\ StrLess(b.publishedAt, a.publishedAt)

\* C10: the recommendations come in non-increasing finalScore = similarityScore
\* + 5*popularity + 3*recency, equal scores in descending publish timestamp;
\* they are at most `limit` (6 by default), the highest-ranked candidates, and
\* never the source video.
C10_RankedRecommendations ==
  Recommended =>
    /\ \A r \in Returned :
         /\ r.finalScore = 10 * r.similarityScore + 5 * r.popularity + 3 * r.recency
         /\ r.finalScore = ExpectedFinal(r)
         /\ r.youtubeId # call.youtubeId
         /\ \E c \in Candidates : c.youtubeId = r.youtubeId
    /\ \A i, j \in 1..Len(result.videos) :
         i < j => /\ ~RanksAbove(result.videos[j], result.videos[i])
                  /\ result.videos[i].youtubeId # result.videos[j].youtubeId
    /\ Len(result.videos) <= RequestedLimit
    /\ Len(result.videos) =
         (IF Cardinality(Candidates) < RequestedLimit
          THEN Cardinality(Candidates) ELSE RequestedLimit)
    /\ \A c \in Candidates :
         (\A r \in Returned : r.youtubeId # c.youtubeId) =>
           \A r \in Returned : ~RanksAbove(c, r)

\* Two candidates of equal finalScore, limit 1: the later published is returned.
C10_Witness ==
  /\ Recommended
  /\ call.youtubeId = "v5" /\ call.limit = <<Num(1)>>
  /\ {c.youtubeId : c \in Candidates} = {"v1", "v2"}
  /\ \A c \in Candidates : ExpectedFinal(c) = 55
  /\ ReturnedIds = <<"v1">>

\* The operations that only read the videos collection.
Readers ==
  {"searchVideos", "getVideoRecommendations", "getTrendingBrawlers",
   "getPopularSearchQueries"}

\* C11: a second run of getVideoRecommendations on the same source video, the
\* same stored records and the same preferences returns the same videos in
\* the same order with the same scores as the first.
C11_SecondRunEqualsFirst ==
  [][(/\ call.op = "getVideoRecommendations"
      /\ call' = call
      /\ videos' = videos
      /\ result.status = "ok"
      /\ result'.status = "ok") => result'.videos = result.videos]_vars

C13_FailureReachesCaller ==
  (/\ storage = "down"
   /\ call.op \in Readers \cup {"getPersonalizedRecommendations"})
  => result.status = "error"

\* C14: no two stored records have the same youtubeId.
C14_OneRecordPerYoutubeId ==
  \A a, b \in videos : a.youtubeId = b.youtubeId => a = b

\* C15: a step in which searchVideos, getVideoRecommendations,
\* getTrendingBrawlers or getPopularSearchQueries is called leaves every
\* stored video record as it was.
C15_ReadersLeaveVideosAlone ==
  [][call'.op \in Readers => videos' = videos]_vars

\* getTrendingBrawlers has answered on a collection that holds records.
C15_Witness ==
  /\ call.op = "getTrendingBrawlers" /\ result.status = "ok"
  /\ Len(result.brawlers) > 0
  /\ Cardinality(videos) = MaxStored

\* getTrendingBrawlers has answered.
Trended == call.op = "getTrendingBrawlers" /\ result.status = "ok"

\* The entries returned.
Entries == {result.brawlers[i] : i \in 1..Len(result.brawlers)}

\* The number of days of the window of the call, 30 when it is left out.
WindowDays == IF call.days = <<>> THEN 30 ELSE call.days[1]

\* The stored videos published on or after the first day of the window that
\* list brawler b.
Listing(b) ==
  {v \in videos :
     /\ StrLeq(<<(now - WindowDays) \div 10, (now - WindowDays) % 10>>, v.publishedAt)
     /\ b \in v.brawlers}

RECURSIVE TotalViews(_)
TotalViews(S) ==
  IF S = {} THEN 0
  ELSE LET v == CHOOSE x \in S : TRUE
       IN TotalViews(S \ {v}) + v.viewCount

\* 10^(count + 2 * log10(totalViews + 1)) = 10^count * (totalViews + 1)^2
ExpectedScore(count, totalViews) ==
  Times(Times(ToLimbs(totalViews + 1), ToLimbs(totalViews + 1)),
        Power(ToLimbs(10), count))

WindowBrawlers == {b \in UNION {v.brawlers : v \in videos} : Listing(b) # {}}

\* The limit of the call, `default` when it is left out.
LimitOf(default) == IF call.limit = <<>> THEN default ELSE call.limit[1].v

Popular == call.op = "getPopularSearchQueries" /\ result.status = "ok"

\* The rows of the search history saved on or after the first day of the
\* window (30 days when days is left out) with query q.
RowsOf(q) ==
  {i \in 1..Len(searchHistory) :
     /\ StrLeq(<<(now - WindowDays) \div 10, (now - WindowDays) % 10>>,
               searchHistory[i].timestamp)
     /\ searchHistory[i].query = q}

\* The distinct queries of the window.
WindowQueries ==
  {q \in {searchHistory[i].query : i \in 1..Len(searchHistory)} : RowsOf(q) # {}}

\* The page of the call, 1 when it is left out, and the rows before it.
PageOf == IF call.page = <<>> THEN 1 ELSE call.page[1].v

Skipped == (PageOf - 1) * LimitOf(10)

\* C18: getPopularSearchQueries returns one entry per distinct query of the
\* window with its number of rows, in descending count order, the entries at
\* positions (page-1)*limit+1 .. (page-1)*limit+limit of that order; total is
\* the number of distinct queries of the window and pages is
\* ceil(total / limit).
C18_PopularSearchQueries ==
  Popular =>
    LET total == Cardinality(WindowQueries)
        rest  == IF total > Skipped THEN total - Skipped ELSE 0
    IN /\ result.pagination.total = total
       /\ result.pagination.page = Num(PageOf)
       /\ result.pagination.limit = Num(LimitOf(10))
       /\ result.pagination.pages = Num((total + LimitOf(10) - 1) \div LimitOf(10))
       /\ Len(result.queries) = (IF LimitOf(10) < rest THEN LimitOf(10) ELSE rest)
       /\ \A i \in 1..Len(result.queries) :
            LET e == result.queries[i]
            IN /\ e.query \in WindowQueries
               /\ e.count = Cardinality(RowsOf(e.query))
               /\ \A j \in 1..Len(result.queries) :
                    /\ i # j => result.queries[j].query # e.query
                    /\ i < j => e.count >= result.queries[j].count
               /\ Cardinality({q \in WindowQueries :
                                 Cardinality(RowsOf(q)) > e.count}) <= Skipped + i - 1
               /\ Cardinality({q \in WindowQueries :
                                 Cardinality(RowsOf(q)) >= e.count}) >= Skipped + i

\* Three rows, one of them saved before the window of the call; the second
\* page of size 1 holds the less searched of the two queries of the window.
C18_Witness ==
  /\ Popular
  /\ Len(searchHistory) = 3
  /\ call.days = <<0>> /\ call.limit = <<Num(1)>> /\ call.page = <<Num(2)>>
  /\ Cardinality(WindowQueries) = 2
  /\ \E i \in 1..3 : searchHistory[i].timestamp # <<now \div 10, now % 10>>
  /\ Len(result.queries) = 1
  /\ result.pagination.total = 2 /\ result.pagination.pages = Num(2)

\* Two rows for one query and one for another: the first page of size 1 holds
\* the query searched twice.
C18_WitnessCounts ==
  /\ Popular
  /\ call.limit = <<Num(1)>> /\ call.page = <<>>
  /\ Cardinality(WindowQueries) = 2
  /\ Len(result.queries) = 1 /\ result.queries[1].count = 2

\* The attempts of the call in progress that were rejected.
Rejections == {i \in 1..Len(retry.calls) : retry.calls[i] = "rejected"}

\* The delay before retry i without its jitter: 1000 * 2^i, at most 10000.
ExpectedDelay(i) ==
  IF i = 1 THEN 2000 ELSE IF i = 2 THEN 4000 ELSE IF i = 3 THEN 8000 ELSE 10000

\* What holds at every step of a callLLMWithRetry call.
RetryBounded ==
  /\ Len(retry.calls) <= retry.maxRetries + 1
  /\ \A i \in 1..Len(retry.calls) :
       retry.calls[i] = "resolved" => i = Len(retry.calls)
  /\ Len(retry.delays) =
       (IF Cardinality(Rejections) <= retry.maxRetries
        THEN Cardinality(Rejections) ELSE retry.maxRetries)
  /\ \A i \in 1..Len(retry.delays) :
       /\ retry.delays[i] >= ExpectedDelay(i)
       /\ retry.delays[i] < ExpectedDelay(i) + 1000
  /\ retry.pc = "calling" => Len(retry.delays) = Len(retry.calls)
  /\ retry.pc = "resolved" =>
       /\ retry.calls[Len(retry.calls)] = "resolved"
       /\ retry.returned = Len(retry.calls)
  /\ retry.pc = "rejected" =>
       /\ Len(retry.calls) = retry.maxRetries + 1
       /\ Cardinality(Rejections) = retry.maxRetries + 1
       /\ retry.returned = retry.maxRetries + 1

\* C19: callLLMWithRetry calls apiCall at most maxRetries + 1 times, stops at
\* the first attempt that resolves and returns its value, waits before retry
\* i a delay of min(1000 * 2^i, 10000) plus a jitter below 1000 and does not
\* wait after the last failure, rejects with the error of the last attempt
\* when all fail, and every call ends.
C19_RetryTerminates ==
  /\ []RetryBounded
  /\ (retry.pc # "idle") ~> (retry.pc \in {"resolved", "rejected"})

\* Five attempts failed with maxRetries = 4: four delays, the last one capped.
C19_Witness ==
  /\ retry.pc = "rejected"
  /\ retry.maxRetries = 4
  /\ Len(retry.calls) = 5
  /\ Len(retry.delays) = 4
  /\ retry.delays[4] >= 10000 /\ retry.delays[4] < 11000

\* An attempt resolved after two failures.
C19_WitnessResolved ==
  /\ retry.pc = "resolved"
  /\ retry.calls = <<"rejected", "rejected", "resolved">>
  /\ retry.returned = 3

\* C20: the brawlers, gameModes and contentType arrays that GET /api/search
\* hands to searchVideos hold no empty string and no value twice.
C20_ArraysNormalized ==
  call.op = "GET /api/search" =>
    \A f \in {"brawlers", "gameModes", "contentType"} :
      \A i, j \in 1..Len(call.params[f]) :
        /\ call.params[f][i] # ""
        /\ i # j => call.params[f][i] # call.params[f][j]

\* A list holds no entry twice.
NoDuplicates(seq) == \A i, j \in 1..Len(seq) : i # j => seq[i] # seq[j]

\* C21: after any sequence of POST /api/conversation and POST /api/feedback
\* requests on one session, preferredBrawlers holds at most 10 entries,
\* preferredGameModes and preferredContentTypes at most 5 each, and none of
\* them holds an entry twice.
C21_PreferencesBounded ==
  /\ Len(session.preferredBrawlers) <= BrawlersCap
  /\ Len(session.preferredGameModes) <= GameModesCap
  /\ Len(session.preferredContentTypes) <= ContentTypesCap
  /\ NoDuplicates(session.preferredBrawlers)
  /\ NoDuplicates(session.preferredGameModes)
  /\ NoDuplicates(session.preferredContentTypes)

\* The history holds at most 20 messages, a user message followed by the
\* reply to it, in the order they were sent.
HistoryInOrder ==
  LET h == session.conversationHistory
  IN /\ Len(h) <= HistoryCap
     /\ \A i \in 1..Len(h) :
          h[i].role = IF i % 2 = 1 THEN "user" ELSE "assistant"
     /\ Len(h) % 2 = 0
     /\ \A i \in 1..Len(h) :
          i % 2 = 1 /\ i + 2 <= Len(h) => h[i + 2].content = h[i].content + 1

\* After a message is answered, it and its reply are the last two entries.
HistoryEndsWithRequest ==
  LET h == session.conversationHistory
  IN call.op = "POST /api/conversation" /\ result.status = 200 =>
       /\ Len(h) >= 2
       /\ h[Len(h) - 1] = [role |-> "user", content |-> call.message[1]]
       /\ h[Len(h)] = [role |-> "assistant", content |-> AssistantMessage]

\* After DELETE /api/conversation/history the history is empty.
HistoryCleared ==
  call.op = "DELETE /api/conversation/history" =>
    session.conversationHistory = <<>>

\* A request to POST /api/conversation that is not answered 200 leaves the
\* history as it was.
FailureAddsNothing ==
  call'.op = "POST /api/conversation" /\ result'.status # 200 =>
    session'.conversationHistory = session.conversationHistory

\* C22: conversationHistory never holds more than 20 messages, holds the most
\* recent ones in order, each user message followed by the reply to it, is
\* empty after DELETE /api/conversation/history, and is left alone by a
\* message whose processing fails.
C22_HistoryBounded ==
  /\ [](HistoryInOrder /\ HistoryEndsWithRequest /\ HistoryCleared)
  /\ [][FailureAddsNothing]_vars

\* The eleventh message was answered: the first one was dropped.
C22_Witness ==
  /\ call.op = "POST /api/conversation"
  /\ result.status = 200
  /\ Len(session.conversationHistory) = HistoryCap
  /\ session.conversationHistory[1].content =
       call.message[1] - HistoryCap \div 2 + 1
  /\ session.conversationHistory[1].content > 1

\* C23: saveVideo called for a youtubeId that is stored, while MongoDB
\* answers, succeeds: it updates the stored record and returns its id.
C23_UpdateSucceeds ==
  [][(/\ call'.op = "saveVideo"
      /\ storage = "up"
      /\ FindByYoutubeId(videos, call'.youtubeId) # {})
     => result'.status = "ok"]_vars

\* A call of connectToDatabase made while the module is connected attempts
\* nothing: no client is created and the call returns.
NoAttemptWhenConnected ==
  (/\ connected
   /\ saves["a"].pc = "waiting"
   /\ saves'["a"].op = "connectToDatabase")
  => /\ saves'["a"].pc = "resolved"
     /\ saves'["a"].attempt = 0
     /\ clients' = clients

\* The call of connectToDatabase in progress: at most `retries` attempts; it
\* returns at the first attempt that connects and completes the
\* initialization, every attempt before it having failed; the delays awaited
\* start at `delay` and grow by one half each time; the last failure is not
\* followed by a wait, and the error thrown names `retries` and that failure.
AttemptsBounded ==
  LET s == saves["a"]
  IN s.op = "connectToDatabase" =>
       /\ s.attempt <= s.retries
       /\ Len(s.waits) <= s.retries - 1
       /\ Len(s.waits) > 0 => s.waits[1] = s.initial
       /\ \A k \in 1..Len(s.waits) - 1 : s.waits[k + 1] * 2 = s.waits[k] * 3
       /\ (s.pc = "resolved" /\ s.attempt > 0) =>
            /\ connected
            /\ clients[client] = "open"
            /\ Len(s.waits) = s.attempt - 1
            /\ s.error = <<>>
       /\ s.pc = "failed" =>
            /\ s.attempt = s.retries
            /\ Len(s.waits) = s.retries - 1
            /\ s.lastError[1].attempt = s.retries
            /\ s.error = <<[attempts |-> s.retries, message |-> s.lastError[1]]>>

\* C24: connectToDatabase(retries, delay) attempts nothing when the module is
\* connected; otherwise it makes at most `retries` attempts (5 by default),
\* returns after the first one that connects and completes the initialization
\* of collections and indexes, waits `delay` times 1.5 to the number of
\* failures before it between two attempts and not after the last one, and
\* after `retries` failures rejects with an error that names the number of
\* attempts and the last failure.
C24_ConnectRetries == []AttemptsBounded /\ [][NoAttemptWhenConnected]_vars

\* connectToDatabase() failed five times: it waited 5000, 7500, 11250 and
\* 16875 ms and then rejected.
C24_Witness ==
  /\ saves["a"].op = "connectToDatabase"
  /\ saves["a"].pc = "failed"
  /\ saves["a"].retries = Retries
  /\ saves["a"].waits =
       <<5000 * DelayUnit, 7500 * DelayUnit, 11250 * DelayUnit, 16875 * DelayUnit>>

\* C25: while the most recent attempt of connectToDatabase has failed, and
\* after connectToDatabase has rejected, the flag `connected` is false.
C25_ConnectedMeansInitialized ==
  (/\ saves["a"].op = "connectToDatabase"
   /\ saves["a"].pc \in {"wait", "failed"})
  => ~connected

\* C26: with callers that run ensureConnection concurrently, at most one
\* MongoClient is open, and an open one is the one `client` refers to.
C26_OneClient ==
  /\ Cardinality({i \in 1..Len(clients) : clients[i] = "open"}) <= 1
  /\ \A i \in 1..Len(clients) : clients[i] = "open" => i = client

\* saveSearchQuery and recordMetric return to their caller, whether the row
\* was written or not.
WritersReturn ==
  call.op \in {"saveSearchQuery", "recordMetric"} => result.status = "ok"

\* GET /api/search answers with what searchVideos returned, whether the rows
\* of the search history and of the metrics were written or not.
SearchAnswered ==
  (call'.op = "GET /api/search" /\ storage = "up")
  => result' \in SearchVideosResults(videos, call'.params)

\* C27: a failure while the search-history row or a metric row is written is
\* swallowed: saveSearchQuery and recordMetric do not reject, and GET
\* /api/search still responds with the results searchVideos returned.
C27_WriteFailuresSwallowed == []WritersReturn /\ [][SearchAnswered]_vars

\* A search with a query was answered with a video although neither its
\* history row nor its metric row was written.
C27_Witness ==
  /\ call.op = "GET /api/search"
  /\ "query" \notin call.query.undef
  /\ result.status = "ok"
  /\ Len(result.videos) > 0
  /\ searchHistory = <<>>
  /\ metrics = 0

\* saveSearchQuery returned while MongoDB did not answer.
C27_WitnessWriter ==
  /\ call.op = "saveSearchQuery"
  /\ storage = "down"
  /\ result.status = "ok"

\* The outcomes of the call of the model after which no parameters are
\* parsed: the call failed after its retries, the reply has no fenced block or
\* an empty one, or the block is not valid JSON.
FailedOutcomes ==
  { <<>>,
    <<"Try searching for mortis">>,
    <<"'''json\n{brawlers}\n'''">>,
    <<"'''json\n\n'''">> }

\* The name occurs in the query, letter case aside.
OccursIn(name, query) ==
  \E i \in 1..(Len(query) - Len(name) + 1) :
    ToLowerCase(SubSeq(query, i, i + Len(name) - 1)) = ToLowerCase(name)

\* The names a youtube service exports under BRAWLERS or GAME_MODES.
KnownNames(list) ==
  UNION {{e[list][1][i] : i \in 1..Len(e[list][1])} :
           e \in {x \in YoutubeExports : x[list] # <<>>}}

\* C28: generateSearchParams never rejects; when the call of the model fails
\* after its retries, or its reply holds no fenced JSON block or invalid JSON,
\* it resolves to fallback parameters whose query is the input, whose sortBy
\* is "relevance" and whose brawlers and gameModes are known names that occur
\* in the query.
C28_FallbackParams ==
  call.op = "generateSearchParams" =>
    /\ result.status = "ok"
    /\ (~result.hit /\ call.outcome \in FailedOutcomes) =>
         /\ result.params.query = call.query
         /\ result.params.sortBy = "relevance"
         /\ \A i \in 1..Len(result.params.brawlers) :
              /\ result.params.brawlers[i] \in KnownNames("BRAWLERS")
              /\ OccursIn(result.params.brawlers[i], call.query)
         /\ \A i \in 1..Len(result.params.gameModes) :
              /\ result.params.gameModes[i] \in KnownNames("GAME_MODES")
              /\ OccursIn(result.params.gameModes[i], call.query)

\* The reply had no fenced block: the fallback names the brawler and the game
\* mode of the query.
C28_Witness ==
  /\ call.op = "generateSearchParams"
  /\ call.query = "Best COLT heist"
  /\ call.outcome = <<"Try searching for mortis">>
  /\ ~result.hit
  /\ result.params.brawlers = <<"Colt">>
  /\ result.params.gameModes = <<"Heist">>

RECURSIVE IsSubsequence(_, _)
IsSubsequence(a, b) ==
  IF a = <<>> THEN TRUE
  ELSE IF b = <<>> THEN FALSE
  ELSE IF Head(a) = Head(b) THEN IsSubsequence(Tail(a), Tail(b))
  ELSE IsSubsequence(a, Tail(b))

\* C30: a searchVideos call that runs while videos are saved returns a total,
\* a number of pages and a slice that describe one state of the collection:
\* for some set of records made of those stored during the call, total is the
\* number of its records that match, pages follows from it, and the slice is
\* a sub-sequence of its matches in sort order.
C30_OneSnapshot ==
  (search.pc = "returned" /\ search.result.status = "ok") =>
    \E store \in SUBSET (search.counted \cup search.read) :
      LET p       == Destructure(search.params)
          matched == {v \in store : Matches(v, BuildQuery(p))}
      IN /\ search.result.pagination =
              Pagination(Cardinality(matched), ParseIntNum(p.page),
                         ParseIntNum(p.limit))
         /\ \E s \in SortedSeqs(matched, SortOptions(p.sortBy, p.query), p.query) :
              IsSubsequence(search.result.videos, s)

====
